---------------------------- MODULE Spec2Model ----------------------------
(***************************************************************************)
(* Model of ProfessorOakBot's graphics monitor (src/cogs/graphics_monitor  *)
(* .py): the DateParser, the MonitoredGraphic store and the asynchronous   *)
(* handlers (evaluator tasks, gateway events, commands, DM buttons) that   *)
(* advance a record through its lifecycle.                                 *)
(*                                                                         *)
(* Instants are seconds since 2000-01-01 00:00:00 UTC.  A text is a        *)
(* sequence of one-character strings.  An absent value (Python None, SQL   *)
(* NULL) is None for an instant, NoId for an identifier and the empty      *)
(* sequence for a string.                                                  *)
(***************************************************************************)
EXTENDS Integers, Sequences, FiniteSets, TLC

None == -1
NoId == 0

(***************************************************************************)
(* datetime arithmetic (the Python datetime calls the parser relies on)    *)
(***************************************************************************)
IsLeap(y) == (y % 4 = 0 /\ y % 100 # 0) \/ y % 400 = 0

DaysInMonth(y, m) ==
    IF m = 2 THEN (IF IsLeap(y) THEN 29 ELSE 28)
    ELSE IF m \in {4, 6, 9, 11} THEN 30 ELSE 31

\* days from the first of January of year y to the first of month m
DaysBeforeMonth(y, m) ==
    << 0, 31, 59, 90, 120, 151, 181, 212, 243, 273, 304, 334 >>[m]
    + (IF m > 2 /\ IsLeap(y) THEN 1 ELSE 0)

LeapsBefore(y) == ((y - 1) \div 4) - ((y - 1) \div 100) + ((y - 1) \div 400)

\* days from 2000-01-01 to the first of January of year y
DaysBeforeYear(y) == 365 * (y - 2000) + LeapsBefore(y) - LeapsBefore(2000)

\* a check of the date that lets every month have 31 days
ValidUpToThe31st(y, m, d, h, mi) ==
    /\ m \in 1..12
    /\ d >= 1 /\ d <= 31
    /\ h \in 0..23
    /\ mi \in 0..59

\* datetime.datetime(y, m, d, h, mi, s) raises ValueError unless this holds
ValidDateTime(y, m, d, h, mi) ==
    /\ m \in 1..12
    /\ d >= 1 /\ d <= DaysInMonth(y, m)
    /\ h \in 0..23
    /\ mi \in 0..59

MkDateTime(y, m, d, h, mi, s) ==
    (((DaysBeforeYear(y) + DaysBeforeMonth(y, m) + (d - 1)) * 24 + h) * 60 + mi) * 60 + s

Timedelta(days, hours, seconds) == (days * 24 + hours) * 3600 + seconds

\* the calendar fields of an instant
DayNumber(t) == t \div 86400
YearOf(t) ==
    CHOOSE y \in 2000..2066 :
        DaysBeforeYear(y) <= DayNumber(t) /\ DayNumber(t) < DaysBeforeYear(y + 1)
MonthOf(t) ==
    LET y == YearOf(t)
        n == DayNumber(t) - DaysBeforeYear(y)
    IN  CHOOSE m \in 1..12 :
            DaysBeforeMonth(y, m) <= n /\ n < DaysBeforeMonth(y, m) + DaysInMonth(y, m)
DayOf(t) ==
    DayNumber(t) - DaysBeforeYear(YearOf(t)) - DaysBeforeMonth(YearOf(t), MonthOf(t)) + 1

(***************************************************************************)
(* Characters.  A character outside ASCII is named by its code point.      *)
(***************************************************************************)
DigitChars == <<"0", "1", "2", "3", "4", "5", "6", "7", "8", "9">>
UpperChars ==
    <<"A", "B", "C", "D", "E", "F", "G", "H", "I", "J", "K", "L", "M", "N", "O", "P",
      "Q", "R", "S", "T", "U", "V", "W", "X", "Y", "Z", "U+00D1", "U+0143", "U+0179">>
LowerChars ==
    <<"a", "b", "c", "d", "e", "f", "g", "h", "i", "j", "k", "l", "m", "n", "o", "p",
      "q", "r", "s", "t", "u", "v", "w", "x", "y", "z", "U+00F1", "U+0144", "U+017A">>

Range(s) == {s[i] : i \in DOMAIN s}
IsDigit(c) == c \in Range(DigitChars)
DigitVal(c) == (CHOOSE i \in DOMAIN DigitChars : DigitChars[i] = c) - 1
\* regex \s and \w on the characters above
IsSpace(c) == c \in {" ", "\t", "\n"}
IsWord(c) == c \in Range(DigitChars) \cup Range(UpperChars) \cup Range(LowerChars) \cup {"_"}
\* str.lower(), one character
LowerChar(c) ==
    IF c \in Range(UpperChars)
    THEN LowerChars[CHOOSE i \in DOMAIN UpperChars : UpperChars[i] = c]
    ELSE c
Lower(text) == [i \in DOMAIN text |-> LowerChar(text[i])]

\* the character at position p, "" past either end
CharAt(text, p) == IF p \in DOMAIN text THEN text[p] ELSE ""
Slice(text, from, to) == SubSeq(text, from, to)

(***************************************************************************)
(* Regular expressions.  A numeric pattern is its sequence of tokens: "d"  *)
(* is the group (\d{1,2}), "s*" and "s+" are \s* and \s+, and any other    *)
(* token is that literal character.                                        *)
(***************************************************************************)
DATE_RANGE_PATTERN == <<"d", ".", "d", "s*", "-", "s*", "d", ".", "d">>
\* DATETIME_RANGE_PATTERN with no spaces allowed around the dash
DatetimeRangeUnspaced == <<"d", ".", "d", "s+", "d", ":", "d", "-", "d", ":", "d">>
DATETIME_RANGE_PATTERN ==
    <<"d", ".", "d", "s+", "d", ":", "d", "s*", "-", "s*", "d", ":", "d">>

\* int() of the n digits at p
NumVal(text, p, n) ==
    IF n = 2 THEN 10 * DigitVal(text[p]) + DigitVal(text[p + 1]) ELSE DigitVal(text[p])
\* the position after the run of spaces that starts at p
SkipSpaces(text, p) ==
    IF p > Len(text) THEN p
    ELSE CHOOSE q \in p..(Len(text) + 1) :
            /\ ~IsSpace(CharAt(text, q))
            /\ \A r \in p..(q - 1) : IsSpace(CharAt(text, r))

Min(S) == CHOOSE x \in S : \A y \in S : x <= y
Max(S) == CHOOSE x \in S : \A y \in S : x >= y

NoMatch == [ok |-> FALSE, start |-> 0, end |-> 0, groups |-> <<>>]

\* the tokens of pattern from the k-th on, matched at p the way a
\* backtracking matcher does: each greedy token takes the most it can that
\* lets the rest match
RECURSIVE MatchAt(_, _, _, _)
\* \s* or \s+ ending at q, at lo at the least: the longest run first
RECURSIVE MatchSpaces(_, _, _, _, _, _)
MatchSpaces(text, p, q, lo, pattern, k) ==
    IF q < lo THEN NoMatch
    ELSE LET rest == MatchAt(text, q, pattern, k + 1)
         IN  IF rest.ok THEN [rest EXCEPT !.start = p]
             ELSE MatchSpaces(text, p, q - 1, lo, pattern, k)

MatchAt(text, p, pattern, k) ==
    IF k > Len(pattern) THEN [ok |-> TRUE, start |-> p, end |-> p, groups |-> <<>>]
    ELSE IF pattern[k] = "d"
    THEN IF ~IsDigit(CharAt(text, p)) THEN NoMatch
         ELSE LET two == IF IsDigit(CharAt(text, p + 1))
                         THEN MatchAt(text, p + 2, pattern, k + 1)
                         ELSE NoMatch
              IN  IF two.ok
                  THEN [two EXCEPT !.start = p, !.groups = <<NumVal(text, p, 2)>> \o @]
                  ELSE LET one == MatchAt(text, p + 1, pattern, k + 1)
                       IN  IF one.ok
                           THEN [one EXCEPT !.start = p,
                                            !.groups = <<NumVal(text, p, 1)>> \o @]
                           ELSE NoMatch
    ELSE IF pattern[k] \in {"s*", "s+"}
    THEN MatchSpaces(text, p, SkipSpaces(text, p),
                     IF pattern[k] = "s+" THEN p + 1 ELSE p, pattern, k)
    ELSE IF CharAt(text, p) # pattern[k] THEN NoMatch
    ELSE LET rest == MatchAt(text, p + 1, pattern, k + 1)
         IN  IF rest.ok THEN [rest EXCEPT !.start = p] ELSE NoMatch

\* the match at the first position from p on that has one
RECURSIVE SearchFrom(_, _, _)
SearchFrom(pattern, text, p) ==
    IF p > Len(text) THEN NoMatch
    ELSE LET here == MatchAt(text, p, pattern, 1)
         IN  IF here.ok THEN here ELSE SearchFrom(pattern, text, p + 1)

\* re.search: the match at the leftmost position that has one
Search(pattern, text) == SearchFrom(pattern, text, 1)

\* the alternatives of MONTH_NAME_PATTERN, in the pattern's order, with the
\* values MONTHS and MONTH_DISPLAY_NAMES give each
MONTH_NAME_PATTERN ==
    << <<"j", "a", "n", "u", "a", "r", "y">>,
       <<"f", "e", "b", "r", "u", "a", "r", "y">>,
       <<"m", "a", "r", "c", "h">>,
       <<"a", "p", "r", "i", "l">>,
       <<"m", "a", "y">>,
       <<"j", "u", "n", "e">>,
       <<"j", "u", "l", "y">>,
       <<"a", "u", "g", "u", "s", "t">>,
       <<"s", "e", "p", "t", "e", "m", "b", "e", "r">>,
       <<"o", "c", "t", "o", "b", "e", "r">>,
       <<"n", "o", "v", "e", "m", "b", "e", "r">>,
       <<"d", "e", "c", "e", "m", "b", "e", "r">>,
       <<"s", "t", "y", "c", "z", "e", "U+2248", "U+00D1">>,
       <<"s", "t", "y", "c", "z", "e", "n">>,
       <<"l", "u", "t", "y">>,
       <<"m", "a", "r", "z", "e", "c">>,
       <<"k", "w", "i", "e", "c", "i", "e", "U+2248", "U+00D1">>,
       <<"k", "w", "i", "e", "c", "i", "e", "n">>,
       <<"m", "a", "j">>,
       <<"c", "z", "e", "r", "w", "i", "e", "c">>,
       <<"l", "i", "p", "i", "e", "c">>,
       <<"s", "i", "e", "r", "p", "i", "e", "U+2248", "U+00D1">>,
       <<"s", "i", "e", "r", "p", "i", "e", "n">>,
       <<"w", "r", "z", "e", "s", "i", "e", "U+2248", "U+00D1">>,
       <<"w", "r", "z", "e", "s", "i", "e", "n">>,
       <<"p", "a", "U+2248", "U+222B", "d", "z", "i", "e", "r", "n", "i", "k">>,
       <<"p", "a", "z", "d", "z", "i", "e", "r", "n", "i", "k">>,
       <<"l", "i", "s", "t", "o", "p", "a", "d">>,
       <<"g", "r", "u", "d", "z", "i", "e", "U+2248", "U+00D1">>,
       <<"g", "r", "u", "d", "z", "i", "e", "n">> >>

MONTHS ==
    << 1, 2, 3, 4, 5, 6, 7, 8, 9, 10, 11, 12, 1, 1, 2, 3, 4, 4, 5, 6, 7, 8, 8, 9, 9, 10, 10, 11, 12, 12 >>

MONTH_DISPLAY_NAMES ==
    << <<"J", "a", "n", "u", "a", "r", "y">>,
       <<"F", "e", "b", "r", "u", "a", "r", "y">>,
       <<"M", "a", "r", "c", "h">>,
       <<"A", "p", "r", "i", "l">>,
       <<"M", "a", "y">>,
       <<"J", "u", "n", "e">>,
       <<"J", "u", "l", "y">>,
       <<"A", "u", "g", "u", "s", "t">>,
       <<"S", "e", "p", "t", "e", "m", "b", "e", "r">>,
       <<"O", "c", "t", "o", "b", "e", "r">>,
       <<"N", "o", "v", "e", "m", "b", "e", "r">>,
       <<"D", "e", "c", "e", "m", "b", "e", "r">>,
       <<"S", "t", "y", "c", "z", "e", "U+2248", "U+00D1">>,
       <<"S", "t", "y", "c", "z", "e", "U+2248", "U+00D1">>,
       <<"L", "u", "t", "y">>,
       <<"M", "a", "r", "z", "e", "c">>,
       <<"K", "w", "i", "e", "c", "i", "e", "U+2248", "U+00D1">>,
       <<"K", "w", "i", "e", "c", "i", "e", "U+2248", "U+00D1">>,
       <<"M", "a", "j">>,
       <<"C", "z", "e", "r", "w", "i", "e", "c">>,
       <<"L", "i", "p", "i", "e", "c">>,
       <<"S", "i", "e", "r", "p", "i", "e", "U+2248", "U+00D1">>,
       <<"S", "i", "e", "r", "p", "i", "e", "U+2248", "U+00D1">>,
       <<"W", "r", "z", "e", "s", "i", "e", "U+2248", "U+00D1">>,
       <<"W", "r", "z", "e", "s", "i", "e", "U+2248", "U+00D1">>,
       <<"P", "a", "U+2248", "U+222B", "d", "z", "i", "e", "r", "n", "i", "k">>,
       <<"P", "a", "U+2248", "U+222B", "d", "z", "i", "e", "r", "n", "i", "k">>,
       <<"L", "i", "s", "t", "o", "p", "a", "d">>,
       <<"G", "r", "u", "d", "z", "i", "e", "U+2248", "U+00D1">>,
       <<"G", "r", "u", "d", "z", "i", "e", "U+2248", "U+00D1">> >>

\* \b at p: exactly one of the characters around the gap before p is a \w
WordBoundary(text, p) == IsWord(CharAt(text, p - 1)) # IsWord(CharAt(text, p))
\* the alternatives that match at p, each followed by \b
MonthNamesAt(text, p) ==
    {k \in DOMAIN MONTH_NAME_PATTERN :
        LET name == MONTH_NAME_PATTERN[k]
        IN  /\ p + Len(name) - 1 <= Len(text)
            /\ Slice(text, p, p + Len(name) - 1) = name
            /\ WordBoundary(text, p + Len(name))}
\* \b(january|...|grudzien)\b searched in text: groups holds the index of
\* the first alternative that matches at the leftmost matching position
SearchMonthName(text) ==
    LET S == {p \in DOMAIN text : WordBoundary(text, p) /\ MonthNamesAt(text, p) # {}}
    IN  IF S = {} THEN NoMatch
        ELSE LET p == Min(S)
                 k == Min(MonthNamesAt(text, p))
             IN  [ok |-> TRUE, start |-> p, end |-> p + Len(MONTH_NAME_PATTERN[k]),
                  groups |-> <<k>>]

(***************************************************************************)
(* DateParser.parse_date.  current_date is datetime.now() at the call: the  *)
(* parser reads its year and its month (the host's clock, taken to run in  *)
(* UTC).                                                                   *)
(***************************************************************************)
DateParseResult(original_date_string, expiry_datetime, in_effect_datetime) ==
    [original_date_string |-> original_date_string,
     expiry_datetime |-> expiry_datetime,
     in_effect_datetime |-> in_effect_datetime]

NoParse == DateParseResult(<<>>, None, None)

\* the year rule with the next year taken from six months on
YearToUseFromSixMonths(current_date, month) ==
    IF MonthOf(current_date) >= month + 6 THEN YearOf(current_date) + 1 ELSE YearOf(current_date)

\* the year rule taking the next year for every month that has passed
YearToUseNotPast(current_date, month) ==
    IF month < MonthOf(current_date) THEN YearOf(current_date) + 1 ELSE YearOf(current_date)

\* the year a window starting in month starts in, read at parse time
YearToUse(current_date, month) ==
    IF MonthOf(current_date) > month + 6 THEN YearOf(current_date) + 1 ELSE YearOf(current_date)

\* the end year of a day-range: one more when it spans the new year
EndYearToUse(current_date, month1, month2) ==
    IF month2 < month1 THEN YearToUse(current_date, month1) + 1 ELSE YearToUse(current_date, month1)

\* the DD.MM-DD.MM branch without the day of grace
DateRangeWithoutGrace(content, current_date, match) ==
    LET day1 == match.groups[1]
        month1 == match.groups[2]
        day2 == match.groups[3]
        month2 == match.groups[4]
        start_year_to_use == YearToUse(current_date, month1)
        end_year_to_use == EndYearToUse(current_date, month1, month2)
    IN  IF /\ ValidDateTime(start_year_to_use, month1, day1, 0, 0)
           /\ ValidDateTime(end_year_to_use, month2, day2, 0, 0)
        THEN [ok |-> TRUE,
              result |-> DateParseResult(
                  Slice(content, match.start, match.end - 1),
                  MkDateTime(end_year_to_use, month2, day2, 23, 59, 59),
                  MkDateTime(start_year_to_use, month1, day1, 0, 0, 0))]
        ELSE [ok |-> FALSE, result |-> NoParse]

\* the DD.MM-DD.MM branch; ok is FALSE where the code passes on a ValueError
DateRangeBranch(content, current_date, match) ==
    LET day1 == match.groups[1]
        month1 == match.groups[2]
        day2 == match.groups[3]
        month2 == match.groups[4]
        start_year_to_use == YearToUse(current_date, month1)
        end_year_to_use == EndYearToUse(current_date, month1, month2)
    IN  IF /\ ValidDateTime(start_year_to_use, month1, day1, 0, 0)
           /\ ValidDateTime(end_year_to_use, month2, day2, 0, 0)
        THEN [ok |-> TRUE,
              result |-> DateParseResult(
                  Slice(content, match.start, match.end - 1),
                  MkDateTime(end_year_to_use, month2, day2, 23, 59, 59) + Timedelta(1, 0, 0),
                  MkDateTime(start_year_to_use, month1, day1, 0, 0, 0))]
        ELSE [ok |-> FALSE, result |-> NoParse]

\* the DD.MM HH:mm-HH:mm branch
DateTimeRangeBranch(content, current_date, match) ==
    LET day == match.groups[1]
        month == match.groups[2]
        hour1 == match.groups[3]
        minute1 == match.groups[4]
        hour2 == match.groups[5]
        minute2 == match.groups[6]
        year_to_use == YearToUse(current_date, month)
    IN  IF /\ ValidDateTime(year_to_use, month, day, hour1, minute1)
           /\ ValidDateTime(year_to_use, month, day, hour2, minute2)
        THEN [ok |-> TRUE,
              result |-> DateParseResult(
                  Slice(content, match.start, match.end - 1),
                  MkDateTime(year_to_use, month, day, hour2, minute2, 0) + Timedelta(1, 0, 0),
                  MkDateTime(year_to_use, month, day, hour1, minute1, 0))]
        ELSE [ok |-> FALSE, result |-> NoParse]

\* the MONTH_NAME branch taking every month to have thirty days
MonthNameThirtyDays(current_date, match) ==
    LET month_num == MONTHS[match.groups[1]]
        year_to_use == YearToUse(current_date, month_num)
        start_date == MkDateTime(year_to_use, month_num, 1, 0, 0, 0)
        end_date == start_date + Timedelta(30, 0, 0) - Timedelta(0, 0, 1)
    IN  DateParseResult(MONTH_DISPLAY_NAMES[match.groups[1]],
                        end_date + Timedelta(1, 0, 0),
                        start_date)

\* the MONTH_NAME branch
MonthNameBranch(current_date, match) ==
    LET month_num == MONTHS[match.groups[1]]
        year_to_use == YearToUse(current_date, month_num)
        start_date == MkDateTime(year_to_use, month_num, 1, 0, 0, 0)
        end_date ==
            IF month_num = 12
            THEN MkDateTime(year_to_use, 12, 31, 23, 59, 59)
            ELSE MkDateTime(year_to_use, month_num + 1, 1, 0, 0, 0) - Timedelta(0, 0, 1)
    IN  DateParseResult(MONTH_DISPLAY_NAMES[match.groups[1]],
                        end_date + Timedelta(1, 0, 0),
                        start_date)

\* parse_date taking of the patterns that match the one that matches first
\* in the text
ParseLeftmostMatch(content, current_date) ==
    LET range == Search(DATE_RANGE_PATTERN, content)
        rangeBranch == DateRangeBranch(content, current_date, range)
        datetime == Search(DATETIME_RANGE_PATTERN, content)
        datetimeBranch == DateTimeRangeBranch(content, current_date, datetime)
        month == SearchMonthName(Lower(content))
        rangeOk == range.ok /\ rangeBranch.ok
        datetimeOk == datetime.ok /\ datetimeBranch.ok
    IN  IF rangeOk /\ (datetimeOk => range.start < datetime.start)
                   /\ (month.ok => range.start < month.start)
        THEN rangeBranch.result
        ELSE IF datetimeOk /\ (month.ok => datetime.start < month.start)
        THEN datetimeBranch.result
        ELSE IF month.ok THEN MonthNameBranch(current_date, month)
        ELSE IF rangeOk THEN rangeBranch.result
        ELSE NoParse

\* parse_date returning nothing at the first pattern whose match is not a
\* date
ParseStoppingAtInvalid(content, current_date) ==
    LET range == Search(DATE_RANGE_PATTERN, content)
        rangeBranch == DateRangeBranch(content, current_date, range)
        datetime == Search(DATETIME_RANGE_PATTERN, content)
        datetimeBranch == DateTimeRangeBranch(content, current_date, datetime)
        month == SearchMonthName(Lower(content))
    IN  IF range.ok THEN rangeBranch.result
        ELSE IF datetime.ok THEN datetimeBranch.result
        ELSE IF month.ok THEN MonthNameBranch(current_date, month)
        ELSE NoParse

parse_date(content, current_date) ==
    LET range == Search(DATE_RANGE_PATTERN, content)
        rangeBranch == DateRangeBranch(content, current_date, range)
        datetime == Search(DATETIME_RANGE_PATTERN, content)
        datetimeBranch == DateTimeRangeBranch(content, current_date, datetime)
        month == SearchMonthName(Lower(content))
    IN  IF range.ok /\ rangeBranch.ok THEN rangeBranch.result
        ELSE IF datetime.ok /\ datetimeBranch.ok THEN datetimeBranch.result
        ELSE IF month.ok THEN MonthNameBranch(current_date, month)
        ELSE NoParse

(***************************************************************************)
(* GraphicsMonitorCog._calculate_reminder_time, with the cog's default     *)
(* configuration: 09:00 in Europe/Warsaw.                                  *)
(***************************************************************************)
reminder_time_hour == 9
reminder_time_minute == 0

\* day number of the last Sunday of month m of year y (2000-01-01 was a Saturday)
LastSunday(y, m) ==
    LET first == DaysBeforeYear(y) + DaysBeforeMonth(y, m)
        days == {first + d : d \in 0..(DaysInMonth(y, m) - 1)}
    IN  CHOOSE n \in days : n % 7 = 1 /\ \A k \in days : k % 7 = 1 => k <= n

\* a zone that keeps winter time all year
ZoneWithoutSummerTime(local) == Timedelta(0, 1, 0)

\* ZoneInfo("Europe/Warsaw"): the UTC offset, in seconds, of the wall-clock time
\* local (seconds since 2000-01-01 00:00 local); summer time runs from 02:00 on
\* the last Sunday of March to 03:00 on the last Sunday of October
reminder_timezone(local) ==
    LET y == YearOf(local)
    IN  IF /\ local >= LastSunday(y, 3) * 86400 + Timedelta(0, 2, 0)
           /\ local < LastSunday(y, 10) * 86400 + Timedelta(0, 3, 0)
        THEN Timedelta(0, 2, 0)
        ELSE Timedelta(0, 1, 0)

\* the reminder calculation with no reminder at exactly 48 hours
CalculateSuppressingAt48Hours(in_effect_datetime, message_posted_at) ==
    LET time_until_effect == in_effect_datetime - message_posted_at
        day_before == DayNumber(in_effect_datetime) - 1
        reminder_time_local ==
            day_before * 86400 + Timedelta(0, reminder_time_hour, reminder_time_minute * 60)
    IN  IF time_until_effect <= Timedelta(0, 48, 0)
        THEN None
        ELSE reminder_time_local - reminder_timezone(reminder_time_local)

_calculate_reminder_time(in_effect_datetime, message_posted_at) ==
    LET time_until_effect == in_effect_datetime - message_posted_at
        day_before == DayNumber(in_effect_datetime) - 1
        reminder_time_local ==
            day_before * 86400 + Timedelta(0, reminder_time_hour, reminder_time_minute * 60)
    IN  IF time_until_effect < Timedelta(0, 48, 0)
        THEN None
        ELSE reminder_time_local - reminder_timezone(reminder_time_local)

(***************************************************************************)
(* The universe of the lifecycle model                                     *)
(***************************************************************************)
\* how many MonitoredGraphic objects the session ever creates
MaxRows == 2
\* how many messages the bot itself sends (reminder replies and DMs)
MaxSent == 2
\* how many handlers are suspended at an await at the same time
MaxInFlight == 1

\* the content messages of human authors, and the channels
MsgIds == {1}
ChannelIds == {1}

\* message texts and command arguments
TextRange == <<"0", "2", ".", "0", "3", "-", "0", "3", ".", "0", "3">>
TextNoDate == <<"h", "e", "l", "l", "o">>
TextLater == <<"0", "8", ".", "0", "3", "-", "0", "9", ".", "0", "3">>
Texts == {TextRange, TextNoDate, TextLater}
\* what a moderator types into the modal: a text, or one with blanks around it
TextPadded == <<" ">> \o TextRange \o <<" ">>
ModalInputs == Texts \cup {TextPadded}

\* the instants the clock passes through.  At the first TextRange starts in
\* less than 48 hours and TextLater in more; at the second TextRange has
\* expired, the reminder of TextLater is due and TextLater starts in less
\* than 48 hours; at the third TextLater has expired.
Instants ==
    << MkDateTime(2025, 3, 1, 12, 0, 0), MkDateTime(2025, 3, 7, 12, 0, 0),
       MkDateTime(2025, 3, 11, 12, 0, 0) >>

\* parse_date on the texts and instants of this universe, as a table
ParsedAt == [x \in Texts \X Range(Instants) |-> parse_date(x[1], x[2])] @@ <<>>

\* _calculate_reminder_time on the start instants the texts give and the
\* instants of this universe, as a table
StartInstants == {ParsedAt[x].in_effect_datetime : x \in DOMAIN ParsedAt} \ {None}
ReminderTimes ==
    [x \in StartInstants \X Range(Instants) |-> _calculate_reminder_time(x[1], x[2])] @@ <<>>

\* str.strip()
RECURSIVE Strip(_)
Strip(text) ==
    IF text # <<>> /\ IsSpace(Head(text)) THEN Strip(Tail(text))
    ELSE IF text # <<>> /\ IsSpace(text[Len(text)]) THEN Strip(SubSeq(text, 1, Len(text) - 1))
    ELSE text

VARIABLES
    now,            \* the wall clock
    monitored,      \* channel ids that have a MonitoredGraphicsChannel row
    channelGone,    \* channels deleted on the platform: bot.get_channel gives None
    msgs,           \* the platform's content messages of human authors
    graphics,       \* the session's MonitoredGraphic objects, in creation order
    sent,           \* the messages the bot sent: reminder replies and DMs
    pending_date_requests,  \* GraphicsMonitorCog.pending_date_requests (its keys)
    expiry,         \* the check_expired_graphics task
    reminder,       \* the check_and_send_reminders task
    date_request,   \* messages with a _request_date_format call in flight
    add_cmd,        \* an add-graphics-monitor command in flight
    remove_cmd,     \* a remove-graphics-monitor command in flight
    approval,       \* a handle_deletion_approval call in flight
    modal,          \* a DateInputModal.on_submit call in flight
    call            \* a call of DateParser.parse_date or _calculate_reminder_time
                    \* on its own: the arguments, and the value once it returned

vars == << now, monitored, channelGone, msgs, graphics, sent, pending_date_requests,
           expiry, reminder, date_request, add_cmd, remove_cmd, approval, modal,
           call >>

\* a content message nobody has posted yet
NoMessage == [state |-> "none", created_at |-> None, channel_id |-> NoId]

Idle == [pc |-> "idle"]

\* no call of the parser or of the reminder calculation on its own
NoCall == [fn |-> "none"]

Init ==
    /\ now = Instants[1]
    /\ monitored = {}
    /\ channelGone = {}
    /\ msgs = [m \in MsgIds |-> NoMessage]
    /\ graphics = <<>>
    /\ sent = <<>>
    /\ pending_date_requests = {}
    /\ expiry = [pc |-> "idle", queue |-> <<>>]
    /\ reminder = [pc |-> "idle", queue |-> <<>>, reminder_message |-> NoId]
    /\ date_request = {}
    /\ add_cmd = Idle
    /\ remove_cmd = Idle
    /\ approval = Idle
    /\ modal = Idle
    /\ call = NoCall

\* the handlers suspended at an await
InFlight ==
    (IF expiry.pc = "idle" THEN 0 ELSE 1) + (IF reminder.pc = "idle" THEN 0 ELSE 1)
    + Cardinality(date_request) + (IF add_cmd.pc = "idle" THEN 0 ELSE 1)
    + (IF remove_cmd.pc = "idle" THEN 0 ELSE 1) + (IF approval.pc = "idle" THEN 0 ELSE 1)
    + (IF modal.pc = "idle" THEN 0 ELSE 1)
\* the event loop takes one more handler that suspends
MayStart == InFlight < MaxInFlight

(***************************************************************************)
(* The store: session.query / add / delete / commit on MonitoredGraphic    *)
(***************************************************************************)
\* MonitoredGraphic(...): the columns the handlers read, with their defaults
MonitoredGraphic(message_id, channel_id, date_format, expiry_date, in_effect_date, reminder_scheduled_time) ==
    [message_id |-> message_id, channel_id |-> channel_id,
     date_format |-> date_format, expiry_date |-> expiry_date,
     in_effect_date |-> in_effect_date,
     reminder_scheduled_time |-> reminder_scheduled_time,
     reminder_sent |-> FALSE, reminder_message_id |-> NoId,
     pending_approval |-> FALSE, approval_message_id |-> NoId,
     marked_no_date |-> FALSE,
     persisted |-> TRUE]         \* the object has a row in the table

\* the objects that have a row
Rows(gs) == {i \in DOMAIN gs : gs[i].persisted}

\* query(MonitoredGraphic).filter_by(message_id=...).first(): NoId for None
QueryByMessage(gs, message_id) ==
    LET S == {i \in Rows(gs) : gs[i].message_id = message_id}
    IN  IF S = {} THEN NoId ELSE Min(S)

\* a message_id column without unique=True: no INSERT is refused
NoUniqueConstraint(gs, message_id) == FALSE

\* message_id = Column(BigInteger, unique=True, nullable=False)
UniqueViolation(gs, message_id) == \E i \in Rows(gs) : gs[i].message_id = message_id

\* session.add(graphic); session.commit(): the INSERT fails on the unique
\* column and the session rolls the new object back
AddAndCommit(gs, graphic) ==
    IF UniqueViolation(gs, graphic.message_id) THEN gs ELSE Append(gs, graphic)

\* the object of a deleted row: detached from the session.  The handlers that
\* still hold it read its message_id, channel_id and reminder_message_id and
\* nothing else, so only these are kept.
Detached(graphic) ==
    [MonitoredGraphic(graphic.message_id, graphic.channel_id, <<>>, None, None, None)
        EXCEPT !.reminder_message_id = graphic.reminder_message_id,
               !.persisted = FALSE]

\* session.delete(graphic); session.commit().  Deleting an object that has no
\* row any more raises and changes nothing.
DeleteAndCommit(gs, g) == [gs EXCEPT ![g] = Detached(@)]

\* graphic.<attribute> = ...; session.commit(): the UPDATE of the row.  For a
\* detached object the commit writes nothing.
UpdateAndCommit(gs, g, changed) ==
    [gs EXCEPT ![g] = IF @.persisted THEN changed ELSE Detached(changed)]

\* a set of object indices as the list a query returns (in row order)
RECURSIVE SortedSeq(_)
SortedSeq(S) == IF S = {} THEN <<>> ELSE <<Min(S)>> \o SortedSeq(S \ {Min(S)})

(***************************************************************************)
(* The platform                                                            *)
(***************************************************************************)
\* the id of the k-th message the bot sent
SentId(k) == 100 + k

\* channel.fetch_message(message_id) finds the message
Fetchable(m) == msgs[m].state = "live" /\ msgs[m].channel_id \notin channelGone

Parse(text) == ParsedAt[<<text, now>>]
\* self._calculate_reminder_time(...), where the handlers call it
ReminderTime(in_effect_datetime, message_posted_at) ==
    IF in_effect_datetime = None THEN None
    ELSE ReminderTimes[<<in_effect_datetime, message_posted_at>>]
\* a handler that stores whatever the parser returned
ParsedUnchecked(r) == TRUE
\* if parse_result.original_date_string and parse_result.expiry_datetime
Parsed(r) == r.original_date_string # <<>> /\ r.expiry_datetime # None

\* a message the bot sent: a reminder reply to message_id, or a DM to the
\* moderator whose view holds the object graphic (an approval prompt) or the
\* message message_id (a date request).  live: a reply not deleted yet, a view
\* whose buttons still answer.  at: the instant an approval prompt was sent.
Sent(kind, message_id, graphic) ==
    [kind |-> kind, message_id |-> message_id, graphic |-> graphic,
     at |-> IF kind = "approval" THEN now ELSE None, live |-> TRUE]

\* reminder_message.delete() on the reply with this id
Retract(s, id) == [k \in DOMAIN s |-> IF SentId(k) = id THEN [s[k] EXCEPT !.live = FALSE] ELSE s[k]]

(***************************************************************************)
(* The clock and the platform's own events.  The clock's steps are days    *)
(* apart and an await lasts seconds: the clock steps while no handler is   *)
(* suspended.                                                              *)
(***************************************************************************)
Tick ==
    /\ InFlight = 0
    /\ \E k \in 1..(Len(Instants) - 1) : now = Instants[k] /\ now' = Instants[k + 1]
    /\ UNCHANGED << monitored, channelGone, msgs, graphics, sent, pending_date_requests,
                    expiry, reminder, date_request, add_cmd, remove_cmd, approval, modal,
                    call >>

\* a user deletes a content message
DeleteMessage(m) ==
    /\ msgs[m].state = "live"
    /\ msgs' = [msgs EXCEPT ![m] = [NoMessage EXCEPT !.state = "deleted",
                                                     !.channel_id = msgs[m].channel_id]]
    /\ UNCHANGED << now, monitored, channelGone, graphics, sent, pending_date_requests,
                    expiry, reminder, date_request, add_cmd, remove_cmd, approval, modal,
                    call >>

\* a channel is deleted
DeleteChannel(c) ==
    /\ c \notin channelGone
    /\ channelGone' = channelGone \cup {c}
    /\ UNCHANGED << now, monitored, msgs, graphics, sent, pending_date_requests,
                    expiry, reminder, date_request, add_cmd, remove_cmd, approval, modal,
                    call >>

(***************************************************************************)
(* GraphicsMonitorCog.on_message, run when message m is posted.  A bot's   *)
(* message is not one of msgs: both listeners return on it at once.        *)
(***************************************************************************)
\* on_message without its "if not message.attachments: return"
OutcomeWithoutAttachmentCheck(m, c, parse_result, bot, manage_messages, attachments) ==
    IF bot \/ c \notin monitored \/ ~manage_messages THEN "ignore"
    ELSE IF QueryByMessage(graphics, m) # NoId THEN "ignore"
    ELSE IF Parsed(parse_result) THEN "add"
    ELSE IF m \in pending_date_requests THEN "ignore"
    ELSE "ask"

\* what on_message does with the message, up to its first await
OnMessageOutcome(m, c, parse_result, bot, manage_messages, attachments) ==
    IF bot \/ c \notin monitored \/ ~manage_messages \/ ~attachments THEN "ignore"
    ELSE IF QueryByMessage(graphics, m) # NoId THEN "ignore"
    ELSE IF Parsed(parse_result) THEN "add"
    ELSE IF m \in pending_date_requests THEN "ignore"
    ELSE "ask"

on_message(m, c, text, bot, manage_messages, attachments) ==
    \E parse_result \in {Parse(text)} :
    \E reminder_time \in {ReminderTime(parse_result.in_effect_datetime, now)} :
    LET outcome == OnMessageOutcome(m, c, parse_result, bot, manage_messages, attachments)
    IN  /\ msgs[m].state = "none"
        /\ c \notin channelGone
        /\ outcome = "add" => Len(graphics) < MaxRows
        /\ outcome = "ask" => MayStart
        /\ msgs' = IF bot THEN msgs
                   ELSE [msgs EXCEPT ![m] = [state |-> "live", created_at |-> now,
                                             channel_id |-> c]]
        /\ graphics' =
             IF outcome = "add"
             THEN AddAndCommit(graphics,
                      MonitoredGraphic(m, c, parse_result.original_date_string,
                                       parse_result.expiry_datetime,
                                       parse_result.in_effect_datetime, reminder_time))
             ELSE graphics
        /\ date_request' = IF outcome = "ask" THEN date_request \cup {m} ELSE date_request
        /\ UNCHANGED << now, monitored, channelGone, sent, pending_date_requests,
                        expiry, reminder, add_cmd, remove_cmd, approval, modal, call >>

\* on_message_edit computing the reminder time from the instant of the edit
EditAnchoredAtEditInstant(m, text) ==
    \E graphic \in {QueryByMessage(graphics, m)} :
    \E parse_result \in {Parse(text)} :
        /\ Fetchable(m)
        /\ graphic # NoId
        /\ ~graphics[graphic].reminder_sent
        /\ IF Parsed(parse_result)
           THEN /\ graphics' = UpdateAndCommit(graphics, graphic,
                       [graphics[graphic] EXCEPT
                           !.date_format = parse_result.original_date_string,
                           !.expiry_date = parse_result.expiry_datetime,
                           !.in_effect_date = parse_result.in_effect_datetime,
                           !.reminder_scheduled_time =
                               ReminderTime(parse_result.in_effect_datetime,
                                            now)])
                /\ UNCHANGED sent
           ELSE /\ graphics' = DeleteAndCommit(graphics, graphic)
                /\ sent' = IF graphics[graphic].reminder_message_id # NoId
                           THEN Retract(sent, graphics[graphic].reminder_message_id)
                           ELSE sent
        /\ UNCHANGED << now, monitored, channelGone, msgs, pending_date_requests,
                        expiry, reminder, date_request, add_cmd, remove_cmd, approval, modal,
                        call >>

(***************************************************************************)
(* GraphicsMonitorCog.on_message_edit, run when message m is edited to     *)
(* text.  The handler awaits only to delete a reminder reply, which no     *)
(* record with reminder_sent false has, so it runs in one step.            *)
(***************************************************************************)
on_message_edit(m, text) ==
    \E graphic \in {QueryByMessage(graphics, m)} :
    \E parse_result \in {Parse(text)} :
        /\ Fetchable(m)
        /\ graphic # NoId
        /\ ~graphics[graphic].reminder_sent
        /\ IF Parsed(parse_result)
           THEN /\ graphics' = UpdateAndCommit(graphics, graphic,
                       [graphics[graphic] EXCEPT
                           !.date_format = parse_result.original_date_string,
                           !.expiry_date = parse_result.expiry_datetime,
                           !.in_effect_date = parse_result.in_effect_datetime,
                           !.reminder_scheduled_time =
                               ReminderTime(parse_result.in_effect_datetime,
                                            msgs[m].created_at)])
                /\ UNCHANGED sent
           ELSE /\ graphics' = DeleteAndCommit(graphics, graphic)
                /\ sent' = IF graphics[graphic].reminder_message_id # NoId
                           THEN Retract(sent, graphics[graphic].reminder_message_id)
                           ELSE sent
        /\ UNCHANGED << now, monitored, channelGone, msgs, pending_date_requests,
                        expiry, reminder, date_request, add_cmd, remove_cmd, approval, modal,
                        call >>

(***************************************************************************)
(* check_expired_graphics and _request_deletion_approval.  The task is     *)
(* suspended at an await between two steps; the record in hand is the head *)
(* of queue.  fetch_user and fetch_message are one step: the first reads   *)
(* nothing of the model's state.                                           *)
(***************************************************************************)
\* the query of check_expired_graphics
ExpiredGraphics(gs, t) ==
    {i \in Rows(gs) : /\ gs[i].expiry_date # None
                      /\ gs[i].expiry_date <= t
                      /\ gs[i].pending_approval = FALSE
                      /\ gs[i].marked_no_date = FALSE}

\* a pass that ends with the record in hand
PassEndsWithRecord == [pc |-> "idle", queue |-> <<>>]

\* _request_deletion_approval returned: on to the next record of the pass
ExpiryNext == [pc |-> IF Len(expiry.queue) > 1 THEN "fetch" ELSE "idle",
               queue |-> Tail(expiry.queue)]

check_expired_graphics ==
    LET expired_graphics == SortedSeq(ExpiredGraphics(graphics, now))
    IN  /\ expiry.pc = "idle"
        /\ MayStart
        /\ expired_graphics # <<>>
        /\ expiry' = [pc |-> "fetch", queue |-> expired_graphics]
        /\ UNCHANGED << now, monitored, channelGone, msgs, graphics, sent,
                        pending_date_requests, reminder, date_request, add_cmd,
                        remove_cmd, approval, modal, call >>

\* fetch_user, get_channel and fetch_message have returned or raised
ExpiryFetched ==
    LET graphic == Head(expiry.queue)
        message_id == graphics[graphic].message_id
    IN  /\ expiry.pc = "fetch"
        /\ \/ \* the message is there: build the embed, await moderator.send
              /\ Fetchable(message_id)
              /\ expiry' = [expiry EXCEPT !.pc = "send"]
              /\ UNCHANGED graphics
           \/ \* discord.NotFound: delete the record
              /\ graphics[graphic].channel_id \notin channelGone
              /\ ~Fetchable(message_id)
              /\ graphics' = DeleteAndCommit(graphics, graphic)
              /\ expiry' = ExpiryNext
           \/ \* the channel is not found, or a call raised something else
              /\ expiry' = ExpiryNext
              /\ UNCHANGED graphics
        /\ UNCHANGED << now, monitored, channelGone, msgs, sent, pending_date_requests,
                        reminder, date_request, add_cmd, remove_cmd, approval, modal,
                        call >>

\* moderator.send has returned or raised
ExpirySent ==
    LET graphic == Head(expiry.queue)
        dm_message == SentId(Len(sent) + 1)
    IN  /\ expiry.pc = "send"
        /\ \/ \* delivered: the record is marked pending
              /\ Len(sent) < MaxSent
              /\ sent' = Append(sent, Sent("approval", graphics[graphic].message_id, graphic))
              /\ graphics' = UpdateAndCommit(graphics, graphic,
                     [graphics[graphic] EXCEPT !.pending_approval = TRUE,
                                               !.approval_message_id = dm_message])
              /\ expiry' = ExpiryNext
           \/ \* delivered, and session.commit() raises: the change is rolled back
              /\ Len(sent) < MaxSent
              /\ graphics[graphic].persisted
              /\ sent' = Append(sent, Sent("approval", graphics[graphic].message_id, graphic))
              /\ expiry' = ExpiryNext
              /\ UNCHANGED graphics
           \/ \* discord.Forbidden: _mark_no_response awaits add_reaction
              /\ expiry' = [expiry EXCEPT !.pc = "mark"]
              /\ UNCHANGED << graphics, sent >>
           \/ \* any other exception
              /\ expiry' = ExpiryNext
              /\ UNCHANGED << graphics, sent >>
        /\ UNCHANGED << now, monitored, channelGone, msgs, pending_date_requests,
                        reminder, date_request, add_cmd, remove_cmd, approval, modal,
                        call >>

\* _mark_no_response: message.add_reaction has returned or raised
ExpiryMarked ==
    LET graphic == Head(expiry.queue)
        message_id == graphics[graphic].message_id
    IN  /\ expiry.pc = "mark"
        /\ \/ \* the reaction is added and the record marked
              /\ Fetchable(message_id)
              /\ graphics' = UpdateAndCommit(graphics, graphic,
                     [graphics[graphic] EXCEPT !.marked_no_date = TRUE])
           \/ \* add_reaction raises, or session.commit() does
              /\ UNCHANGED graphics
        /\ expiry' = ExpiryNext
        /\ UNCHANGED << now, monitored, channelGone, msgs, sent, pending_date_requests,
                        reminder, date_request, add_cmd, remove_cmd, approval, modal,
                        call >>

(***************************************************************************)
(* check_and_send_reminders and _send_reminder                             *)
(***************************************************************************)
\* the query of check_and_send_reminders
GraphicsNeedingReminders(gs, t) ==
    {i \in Rows(gs) : /\ gs[i].reminder_scheduled_time # None
                      /\ gs[i].reminder_scheduled_time <= t
                      /\ gs[i].reminder_sent = FALSE
                      /\ gs[i].marked_no_date = FALSE}

\* _send_reminder on the records at the head of queue whose channel is not
\* found: it marks them sent and returns without awaiting
RECURSIVE MarkChannelless(_, _)
MarkChannelless(gs, queue) ==
    IF queue # <<>> /\ gs[Head(queue)].channel_id \in channelGone
    THEN MarkChannelless(UpdateAndCommit(gs, Head(queue),
                                         [gs[Head(queue)] EXCEPT !.reminder_sent = TRUE]),
                         Tail(queue))
    ELSE gs
RECURSIVE SkipChannelless(_, _)
SkipChannelless(gs, queue) ==
    IF queue # <<>> /\ gs[Head(queue)].channel_id \in channelGone
    THEN SkipChannelless(gs, Tail(queue))
    ELSE queue

\* the task runs on with the records in queue, up to its next await
ReminderRun(gs, queue) ==
    /\ graphics' = MarkChannelless(gs, queue)
    /\ reminder' = [pc |-> IF SkipChannelless(gs, queue) = <<>> THEN "idle" ELSE "fetch",
                    queue |-> SkipChannelless(gs, queue),
                    reminder_message |-> NoId]

check_and_send_reminders ==
    LET graphics_needing_reminders == SortedSeq(GraphicsNeedingReminders(graphics, now))
    IN  /\ reminder.pc = "idle"
        /\ MayStart
        /\ graphics_needing_reminders # <<>>
        /\ ReminderRun(graphics, graphics_needing_reminders)
        /\ UNCHANGED << now, monitored, channelGone, msgs, sent, pending_date_requests,
                        expiry, date_request, add_cmd, remove_cmd, approval, modal,
                        call >>

\* channel.fetch_message has returned or raised
ReminderFetched ==
    LET graphic == Head(reminder.queue)
        message_id == graphics[graphic].message_id
    IN  /\ reminder.pc = "fetch"
        /\ \/ \* the message is there: await original_message.reply
              /\ Fetchable(message_id)
              /\ reminder' = [reminder EXCEPT !.pc = "reply"]
              /\ UNCHANGED graphics
           \/ \* discord.NotFound: delete the record
              /\ ~Fetchable(message_id)
              /\ ReminderRun(DeleteAndCommit(graphics, graphic), Tail(reminder.queue))
           \/ \* any other exception
              /\ ReminderRun(graphics, Tail(reminder.queue))
        /\ UNCHANGED << now, monitored, channelGone, msgs, sent, pending_date_requests,
                        expiry, date_request, add_cmd, remove_cmd, approval, modal,
                        call >>

\* original_message.reply has returned or raised
ReminderReplied ==
    LET graphic == Head(reminder.queue)
        message_id == graphics[graphic].message_id
    IN  /\ reminder.pc = "reply"
        /\ \/ \* the reply is posted: await add_reaction
              /\ Fetchable(message_id)
              /\ Len(sent) < MaxSent
              /\ sent' = Append(sent, Sent("reminder", message_id, graphic))
              /\ reminder' = [reminder EXCEPT !.pc = "react",
                                              !.reminder_message = SentId(Len(sent) + 1)]
              /\ UNCHANGED graphics
           \/ \* discord.Forbidden: marked as sent to avoid retrying
              /\ ReminderRun(UpdateAndCommit(graphics, graphic,
                                 [graphics[graphic] EXCEPT !.reminder_sent = TRUE]),
                             Tail(reminder.queue))
              /\ UNCHANGED sent
           \/ \* any other exception
              /\ ReminderRun(graphics, Tail(reminder.queue))
              /\ UNCHANGED sent
        /\ UNCHANGED << now, monitored, channelGone, msgs, pending_date_requests,
                        expiry, date_request, add_cmd, remove_cmd, approval, modal,
                        call >>

\* original_message.add_reaction has returned or raised
ReminderReacted ==
    LET graphic == Head(reminder.queue)
        message_id == graphics[graphic].message_id
    IN  /\ reminder.pc = "react"
        /\ \/ \* the reaction is added and the record updated
              /\ Fetchable(message_id)
              /\ ReminderRun(UpdateAndCommit(graphics, graphic,
                                 [graphics[graphic] EXCEPT
                                     !.reminder_sent = TRUE,
                                     !.reminder_message_id = reminder.reminder_message]),
                             Tail(reminder.queue))
           \/ \* discord.Forbidden: marked as sent to avoid retrying
              /\ ReminderRun(UpdateAndCommit(graphics, graphic,
                                 [graphics[graphic] EXCEPT !.reminder_sent = TRUE]),
                             Tail(reminder.queue))
           \/ \* any other exception, or session.commit() raises
              /\ ReminderRun(graphics, Tail(reminder.queue))
        /\ UNCHANGED << now, monitored, channelGone, msgs, sent, pending_date_requests,
                        expiry, date_request, add_cmd, remove_cmd, approval, modal,
                        call >>

(***************************************************************************)
(* _request_date_format, DateRequestView and DateInputModal                *)
(***************************************************************************)
\* fetch_user and moderator.send have returned or raised
DateRequestSent(m) ==
    /\ m \in date_request
    /\ date_request' = date_request \ {m}
    /\ \/ \* delivered: the request is tracked
          /\ Len(sent) < MaxSent
          /\ sent' = Append(sent, Sent("date_request", m, NoId))
          /\ pending_date_requests' = pending_date_requests \cup {m}
       \/ \* discord.Forbidden or another exception: logged
          /\ UNCHANGED << sent, pending_date_requests >>
    /\ UNCHANGED << now, monitored, channelGone, msgs, graphics, expiry, reminder,
                    add_cmd, remove_cmd, approval, modal, call >>

\* DateRequestView.skip_button on the k-th message the bot sent
skip_button(k) ==
    /\ k \in DOMAIN sent
    /\ sent[k].kind = "date_request" /\ sent[k].live
    /\ pending_date_requests' = pending_date_requests \ {sent[k].message_id}
    /\ sent' = [sent EXCEPT ![k].live = FALSE]
    /\ UNCHANGED << now, monitored, channelGone, msgs, graphics, expiry, reminder,
                    date_request, add_cmd, remove_cmd, approval, modal, call >>

\* add_date_button, then the modal is submitted with value: on_submit awaits
\* channel.fetch_message
on_submit(k, value) ==
    /\ k \in DOMAIN sent
    /\ sent[k].kind = "date_request" /\ sent[k].live
    /\ modal.pc = "idle"
    /\ MayStart
    /\ msgs[sent[k].message_id].channel_id \notin channelGone
    /\ modal' = [pc |-> "fetch", view |-> k, message |-> sent[k].message_id,
                 date_string |-> Strip(value)]
    /\ UNCHANGED << now, monitored, channelGone, msgs, graphics, sent,
                    pending_date_requests, expiry, reminder, date_request, add_cmd,
                    remove_cmd, approval, call >>

\* on_submit without its check of the parse result
ModalOutcomeUnparsed(parse_result) ==
    IF ~Fetchable(modal.message) THEN "not_found"
    ELSE IF QueryByMessage(graphics, modal.message) # NoId THEN "existing"
    ELSE "add"

\* what on_submit does once fetch_message has returned
ModalOutcome(parse_result) ==
    IF ~Fetchable(modal.message) THEN "not_found"
    ELSE IF QueryByMessage(graphics, modal.message) # NoId THEN "existing"
    ELSE IF ~Parsed(parse_result) THEN "invalid"
    ELSE "add"

ModalFetched ==
    /\ modal.pc = "fetch"
    /\ \E parse_result \in {Parse(modal.date_string)} :
        LET m == modal.message
            outcome == ModalOutcome(parse_result)
            graphic == MonitoredGraphic(m, msgs[m].channel_id,
                                        parse_result.original_date_string,
                                        parse_result.expiry_datetime, None, None)
        IN  /\ modal' = Idle
            /\ \/ \* discord.NotFound: the tracking entry is dropped
                  /\ outcome = "not_found"
                  /\ pending_date_requests' = pending_date_requests \ {m}
                  /\ UNCHANGED << graphics, sent >>
               \/ \* already monitored, or the date does not parse: the view stays
                  /\ outcome \in {"existing", "invalid"}
                  /\ UNCHANGED << graphics, sent, pending_date_requests >>
               \/ \* a valid date: the record is added and the DM's view removed
                  /\ outcome = "add"
                  /\ Len(graphics) < MaxRows
                  /\ graphics' = AddAndCommit(graphics, graphic)
                  /\ pending_date_requests' = pending_date_requests \ {m}
                  /\ sent' = [sent EXCEPT ![modal.view].live = FALSE]
               \/ \* discord.Forbidden or another exception from fetch_message
                  /\ UNCHANGED << graphics, sent, pending_date_requests >>
            /\ UNCHANGED << now, monitored, channelGone, msgs, expiry, reminder,
                            date_request, add_cmd, remove_cmd, approval, call >>

(***************************************************************************)
(* The commands                                                            *)
(***************************************************************************)
enable_channel(c) ==
    /\ c \notin channelGone
    /\ c \notin monitored
    /\ monitored' = monitored \cup {c}
    /\ UNCHANGED << now, channelGone, msgs, graphics, sent, pending_date_requests,
                    expiry, reminder, date_request, add_cmd, remove_cmd, approval, modal,
                    call >>

\* disable_channel deleting the channel's row alone
DisableWithoutCascade(c) ==
    /\ c \notin channelGone
    /\ c \in monitored
    /\ monitored' = monitored \ {c}
    /\ UNCHANGED << now, channelGone, msgs, graphics, sent, pending_date_requests,
                    expiry, reminder, date_request, add_cmd, remove_cmd, approval, modal,
                    call >>

disable_channel(c) ==
    /\ c \notin channelGone
    /\ c \in monitored
    /\ monitored' = monitored \ {c}
    /\ graphics' = [i \in DOMAIN graphics |->
                       IF graphics[i].persisted /\ graphics[i].channel_id = c
                       THEN Detached(graphics[i])
                       ELSE graphics[i]]
    /\ UNCHANGED << now, channelGone, msgs, sent, pending_date_requests,
                    expiry, reminder, date_request, add_cmd, remove_cmd, approval, modal,
                    call >>

\* add-graphics-monitor with the id of message m (or a link to it in channel
\* c) and date_range: the command awaits target_channel.fetch_message
add_graphics_monitor(m, c, date_range) ==
    /\ add_cmd.pc = "idle"
    /\ MayStart
    /\ c \notin channelGone
    /\ QueryByMessage(graphics, m) = NoId
    /\ add_cmd' = [pc |-> "fetch", msg_id |-> m, target_channel |-> c,
                   date_range |-> date_range]
    /\ UNCHANGED << now, monitored, channelGone, msgs, graphics, sent,
                    pending_date_requests, expiry, reminder, date_request,
                    remove_cmd, approval, modal, call >>

\* fetch_message has returned or raised
AddFetched ==
    /\ add_cmd.pc = "fetch"
    /\ \E parse_result \in {Parse(add_cmd.date_range)} :
        LET m == add_cmd.msg_id
            c == add_cmd.target_channel
        IN  /\ add_cmd' = Idle
            /\ \/ \* the message is found and the date range parses: the record is added
                  /\ Fetchable(m) /\ msgs[m].channel_id = c
                  /\ Parsed(parse_result)
                  /\ Len(graphics) < MaxRows
                  /\ graphics' = AddAndCommit(graphics,
                         MonitoredGraphic(m, c, parse_result.original_date_string,
                                          parse_result.expiry_datetime,
                                          parse_result.in_effect_datetime,
                                          ReminderTime(parse_result.in_effect_datetime, now)))
               \/ \* not found, forbidden, or the date range does not parse
                  /\ UNCHANGED graphics
            /\ UNCHANGED << now, monitored, channelGone, msgs, sent, pending_date_requests,
                            expiry, reminder, date_request, remove_cmd, approval, modal,
                            call >>

\* remove-graphics-monitor with the id of message m: with no reminder reply to
\* delete the record is deleted at once, otherwise the command awaits
\* fetch_message and delete on the reply first
remove_graphics_monitor(m) ==
    LET graphic == QueryByMessage(graphics, m)
    IN  /\ remove_cmd.pc = "idle"
        /\ graphic # NoId
        /\ IF /\ graphics[graphic].reminder_message_id # NoId
              /\ graphics[graphic].channel_id \notin channelGone
           THEN /\ MayStart
                /\ remove_cmd' = [pc |-> "retract", graphic |-> graphic,
                                  reminder_message_id |-> graphics[graphic].reminder_message_id]
                /\ UNCHANGED graphics
           ELSE /\ graphics' = DeleteAndCommit(graphics, graphic)
                /\ UNCHANGED remove_cmd
        /\ UNCHANGED << now, monitored, channelGone, msgs, sent, pending_date_requests,
                        expiry, reminder, date_request, add_cmd, approval, modal, call >>

\* the reply is deleted, or is gone already, or deleting it raised (logged);
\* then the record is deleted
RemoveRetracted ==
    /\ remove_cmd.pc = "retract"
    /\ remove_cmd' = Idle
    /\ \/ /\ sent' = Retract(sent, remove_cmd.reminder_message_id)
          /\ graphics' = DeleteAndCommit(graphics, remove_cmd.graphic)
       \/ \* deleting the reply raised
          /\ graphics' = DeleteAndCommit(graphics, remove_cmd.graphic)
          /\ UNCHANGED sent
       \/ \* the reply is deleted, and session.commit() raises
          /\ graphics[remove_cmd.graphic].persisted
          /\ sent' = Retract(sent, remove_cmd.reminder_message_id)
          /\ UNCHANGED graphics
    /\ UNCHANGED << now, monitored, channelGone, msgs, pending_date_requests,
                    expiry, reminder, date_request, add_cmd, approval, modal, call >>

(***************************************************************************)
(* ApprovalView.delete_button / keep_button and handle_deletion_approval.  *)
(* The view holds the object it was built with, row or no row.  When the   *)
(* handler returns, the button handler disables the view's buttons; when   *)
(* it raises (its error response fails) the buttons stay.                  *)
(***************************************************************************)
\* a button of the k-th message the bot sent is pressed: the handler awaits
\* channel.fetch_message
ApprovalView(k, approved) ==
    /\ k \in DOMAIN sent
    /\ sent[k].kind = "approval" /\ sent[k].live
    /\ approval.pc = "idle"
    /\ IF graphics[sent[k].graphic].channel_id \in channelGone
       THEN \* "Channel not found."
            /\ sent' = [sent EXCEPT ![k].live = FALSE]
            /\ UNCHANGED approval
       ELSE /\ MayStart
            /\ approval' = [pc |-> "fetch", view |-> k, graphic |-> sent[k].graphic,
                            approved |-> approved]
            /\ UNCHANGED sent
    /\ UNCHANGED << now, monitored, channelGone, msgs, graphics, pending_date_requests,
                    expiry, reminder, date_request, add_cmd, remove_cmd, modal, call >>

\* a handler that goes to the response without message.delete()
DecideWithoutDelete == [approval EXCEPT !.pc = "respond"]

\* the handler goes on after the reminder reply is dealt with: to
\* message.delete() when approved, to the response otherwise
ApprovalDecide == [approval EXCEPT !.pc = IF approval.approved THEN "delete" ELSE "respond"]

\* handle_deletion_approval ends: closed tells whether the buttons get disabled
ApprovalEnds(s, closed) ==
    /\ approval' = Idle
    /\ sent' = IF closed THEN [s EXCEPT ![approval.view].live = FALSE] ELSE s

\* channel.fetch_message has returned or raised
ApprovalFetched ==
    LET graphic == approval.graphic
        message_id == graphics[graphic].message_id
    IN  /\ approval.pc = "fetch"
        /\ \/ \* the message is there and the record has a reminder reply:
              \* await fetch_message and delete on the reply
              /\ Fetchable(message_id)
              /\ graphics[graphic].reminder_message_id # NoId
              /\ approval' = [approval EXCEPT !.pc = "retract"]
              /\ UNCHANGED << graphics, sent >>
           \/ \* the message is there and there is no reminder reply
              /\ Fetchable(message_id)
              /\ graphics[graphic].reminder_message_id = NoId
              /\ approval' = ApprovalDecide
              /\ UNCHANGED << graphics, sent >>
           \/ \* discord.NotFound: "already deleted", the record is deleted
              /\ ~Fetchable(message_id)
              /\ graphics' = DeleteAndCommit(graphics, graphic)
              /\ ApprovalEnds(sent, TRUE)
           \/ \* any other exception: the error response is sent, or fails too
              /\ \E closed \in BOOLEAN : ApprovalEnds(sent, closed)
              /\ UNCHANGED graphics
        /\ UNCHANGED << now, monitored, channelGone, msgs, pending_date_requests,
                        expiry, reminder, date_request, add_cmd, remove_cmd, modal,
                        call >>

\* the reminder reply is deleted, or is gone already, or deleting it raised
ApprovalRetracted ==
    /\ approval.pc = "retract"
    /\ approval' = ApprovalDecide
    /\ \/ sent' = Retract(sent, graphics[approval.graphic].reminder_message_id)
       \/ UNCHANGED sent
    /\ UNCHANGED << now, monitored, channelGone, msgs, graphics, pending_date_requests,
                    expiry, reminder, date_request, add_cmd, remove_cmd, modal, call >>

\* message.delete() has returned or raised
ApprovalDeleted ==
    LET message_id == graphics[approval.graphic].message_id
    IN  /\ approval.pc = "delete"
        /\ \/ \* the content is deleted: await the response
              /\ Fetchable(message_id)
              /\ msgs' = [msgs EXCEPT ![message_id] =
                             [NoMessage EXCEPT !.state = "deleted_on_approval",
                                               !.channel_id = msgs[message_id].channel_id]]
              /\ approval' = [approval EXCEPT !.pc = "respond"]
              /\ UNCHANGED sent
           \/ \* it raised (the content is gone already, or forbidden): the
              \* error response is sent, or fails too
              /\ \E closed \in BOOLEAN : ApprovalEnds(sent, closed)
              /\ UNCHANGED msgs
        /\ UNCHANGED << now, monitored, channelGone, graphics, pending_date_requests,
                        expiry, reminder, date_request, add_cmd, remove_cmd, modal,
                        call >>

\* interaction.response.send_message has returned or raised
ApprovalResponded ==
    /\ approval.pc = "respond"
    /\ \/ \* sent: the record is deleted
          /\ graphics' = DeleteAndCommit(graphics, approval.graphic)
          /\ ApprovalEnds(sent, TRUE)
       \/ \* it raised, or session.commit() raised after it: the error response
          \* is sent, or raises too and the buttons stay
          /\ \E closed \in BOOLEAN : ApprovalEnds(sent, closed)
          /\ UNCHANGED graphics
    /\ UNCHANGED << now, monitored, channelGone, msgs, pending_date_requests,
                    expiry, reminder, date_request, add_cmd, remove_cmd, modal, call >>

(***************************************************************************)
(* The specification                                                       *)
(***************************************************************************)
Next ==
    \/ Tick
    \/ \E m \in MsgIds : DeleteMessage(m)
    \/ \E c \in ChannelIds : DeleteChannel(c)
    \/ \E m \in MsgIds, c \in ChannelIds, text \in Texts,
          bot \in BOOLEAN, manage_messages \in BOOLEAN, attachments \in BOOLEAN :
            on_message(m, c, text, bot, manage_messages, attachments)
    \/ \E m \in MsgIds, text \in Texts : on_message_edit(m, text)
    \/ check_expired_graphics
    \/ ExpiryFetched
    \/ ExpirySent
    \/ ExpiryMarked
    \/ check_and_send_reminders
    \/ ReminderFetched
    \/ ReminderReplied
    \/ ReminderReacted
    \/ \E m \in MsgIds : DateRequestSent(m)
    \/ \E k \in 1..MaxSent : skip_button(k)
    \/ \E k \in 1..MaxSent, value \in ModalInputs : on_submit(k, value)
    \/ ModalFetched
    \/ \E c \in ChannelIds : enable_channel(c)
    \/ \E c \in ChannelIds : disable_channel(c)
    \/ \E m \in MsgIds, c \in ChannelIds, date_range \in Texts : add_graphics_monitor(m, c, date_range)
    \/ AddFetched
    \/ \E m \in MsgIds : remove_graphics_monitor(m)
    \/ RemoveRetracted
    \/ \E k \in 1..MaxSent, approved \in BOOLEAN : ApprovalView(k, approved)
    \/ ApprovalFetched
    \/ ApprovalRetracted
    \/ ApprovalDeleted
    \/ ApprovalResponded

Spec == Init /\ [][Next]_vars

(***************************************************************************)
(* Properties                                                              *)
(***************************************************************************)
\* the approval prompts and the reminder replies the bot sent for object g
PromptsFor(g) == {k \in DOMAIN sent : sent[k].kind = "approval" /\ sent[k].graphic = g}
RemindersFor(g) == {k \in DOMAIN sent : sent[k].kind = "reminder" /\ sent[k].graphic = g}
\* the messages the bot sends in this step
NewlySent == DOMAIN sent' \ DOMAIN sent

\* C1: in every reachable state the store holds at most one record per
\* message id, whatever the order of message posts, add commands and modal
\* submissions for that message.
C1_OneRecordPerMessage ==
    \A i, j \in Rows(graphics) :
        graphics[i].message_id = graphics[j].message_id => i = j

\* C1, its case: a record exists for a message while an add command for the
\* same message, started before the record was there, is about to insert.
C1_SecondInsertAttempted ==
    /\ add_cmd.pc = "fetch"
    /\ Fetchable(add_cmd.msg_id)
    /\ msgs[add_cmd.msg_id].channel_id = add_cmd.target_channel
    /\ Parsed(Parse(add_cmd.date_range))
    /\ QueryByMessage(graphics, add_cmd.msg_id) # NoId

\* C2: the expiry task takes up, at its tick, only records that have a row
\* with expiry_date <= now, pending_approval false and marked_no_date false;
\* while it runs its queue only shrinks from the head; an approval prompt is
\* sent only by the task, for the record at the head of that queue; and when
\* the prompt is delivered for a record that still has its row, the record
\* gets pending_approval = TRUE and approval_message_id = the prompt's id.
C2_DeliveredPromptIsRecorded ==
    [][ /\ (expiry.pc = "idle" /\ expiry'.pc # "idle") =>
              \A k \in DOMAIN expiry'.queue :
                  /\ graphics[expiry'.queue[k]].persisted
                  /\ graphics[expiry'.queue[k]].expiry_date # None
                  /\ graphics[expiry'.queue[k]].expiry_date <= now
                  /\ ~graphics[expiry'.queue[k]].pending_approval
                  /\ ~graphics[expiry'.queue[k]].marked_no_date
        /\ (expiry.pc # "idle" /\ expiry'.pc # "idle") =>
              expiry'.queue \in {expiry.queue, Tail(expiry.queue)}
        /\ \A k \in NewlySent :
              sent'[k].kind = "approval" =>
                  /\ expiry.pc = "send"
                  /\ sent'[k].graphic = Head(expiry.queue)
                  /\ graphics[sent'[k].graphic].persisted =>
                        /\ graphics'[sent'[k].graphic].pending_approval
                        /\ graphics'[sent'[k].graphic].approval_message_id = SentId(k)
      ]_vars

\* C3: for each record at most one approval prompt is ever sent, also over
\* ticks in which a platform call or a store call fails.
C3_AtMostOnePrompt ==
    \A g \in DOMAIN graphics : Cardinality(PromptsFor(g)) <= 1

\* C4: for each record at most one reminder reply is ever posted, also over
\* ticks in which a platform call fails after the reply was posted.
C4_AtMostOneReminder ==
    \A g \in DOMAIN graphics : Cardinality(RemindersFor(g)) <= 1

\* C5: once handle_deletion_approval has ended, no record in the store is of
\* a message that an approved decision deleted.
C5_NoRecordOfDeletedContent ==
    approval.pc = "idle" =>
        \A g \in Rows(graphics) :
            msgs[graphics[g].message_id].state # "deleted_on_approval"

\* the window of a record is present: it has an expiry_date
WindowPresent(r) == r.expiry_date # None
\* no scheduling field of a record is set
NoSchedulingField(r) ==
    /\ r.expiry_date = None
    /\ r.in_effect_date = None
    /\ r.reminder_scheduled_time = None

ApprovalRequestedAt(r) ==
    sent[CHOOSE k \in DOMAIN sent : SentId(k) = r.approval_message_id].at

\* C7: in every reachable state a record with pending_approval true has an
\* expiry_date, and it is not later than the instant its approval prompt was
\* sent.
C7_PendingImpliesExpired ==
    \A g \in Rows(graphics) :
        graphics[g].pending_approval =>
            /\ graphics[g].expiry_date # None
            /\ graphics[g].expiry_date <= ApprovalRequestedAt(graphics[g])

\* C8: whenever reminder_sent is set on a record, also when an edit was
\* handled while the reminder task was suspended, its
\* reminder_scheduled_time is non-null and <= now.
C8_SentOnlyWhenDue ==
    [][ \A g \in DOMAIN graphics :
            (~graphics[g].reminder_sent /\ graphics'[g].reminder_sent) =>
                /\ graphics[g].reminder_scheduled_time # None
                /\ graphics[g].reminder_scheduled_time <= now
      ]_vars

\* the handlers suspended at an await with the object g in hand
Holding(g) ==
    \/ expiry.pc # "idle" /\ Head(expiry.queue) = g
    \/ reminder.pc # "idle" /\ Head(reminder.queue) = g
    \/ approval.pc # "idle" /\ approval.graphic = g
    \/ remove_cmd.pc # "idle" /\ remove_cmd.graphic = g

\* C9: while a handler is suspended with a record in hand, only that handler
\* changes the record: a step that changes it is a step of the handler.
C9_MutationsSerialized ==
    [][ \A g \in DOMAIN graphics :
            (Holding(g) /\ graphics'[g] # graphics[g]) =>
                \/ expiry' # expiry
                \/ reminder' # reminder
                \/ approval' # approval
                \/ remove_cmd' # remove_cmd
      ]_vars

\* C10: a reminder reply is never posted for a record whose approval prompt
\* has been issued (pending_approval true).
C10_NoReminderWhilePending ==
    [][ \A k \in NewlySent :
            sent'[k].kind = "reminder" => ~graphics[sent'[k].graphic].pending_approval
      ]_vars


(***************************************************************************)
(* The scheduling the code gives.  tasks.loop(hours=1) starts              *)
(* check_expired_graphics every hour, whatever else is suspended; an await *)
(* returns or raises; and a call that can succeed does not fail for ever.  *)
(***************************************************************************)
FairSpec ==
    /\ Spec
    /\ SF_vars(check_expired_graphics)
    /\ WF_vars(ExpiryFetched)
    /\ WF_vars(ExpirySent)
    /\ WF_vars(ExpiryMarked)
    /\ SF_vars(ExpiryFetched /\ (expiry'.pc = "send" \/ graphics' # graphics))
    /\ SF_vars(ExpirySent /\ graphics' # graphics)
    /\ SF_vars(ExpiryMarked /\ graphics' # graphics)
    /\ WF_vars(ReminderFetched \/ ReminderReplied \/ ReminderReacted)
    /\ WF_vars(\E m \in MsgIds : DateRequestSent(m))
    /\ WF_vars(ModalFetched \/ AddFetched \/ RemoveRetracted)
    /\ WF_vars(ApprovalFetched \/ ApprovalRetracted \/ ApprovalDeleted \/ ApprovalResponded)

\* the record is one the expiry evaluator has to act on
Due(g) ==
    /\ g \in Rows(graphics)
    /\ graphics[g].expiry_date # None
    /\ graphics[g].expiry_date <= now
    /\ ~graphics[g].pending_approval
    /\ ~graphics[g].marked_no_date

\* C11: under fair ticking of check_expired_graphics every record whose
\* expiry_date has passed and that is neither pending nor marked eventually
\* leaves that state (a prompt is delivered and recorded, the record is
\* removed or marked), as long as the bot can still send a message at all.
C11_DueRecordProgresses ==
    \A g \in 1..MaxRows : Due(g) ~> (~Due(g) \/ Len(sent) = MaxSent)

\* the content a record refers to is gone: its message was deleted, or the
\* channel the message was in
ContentGone(g) == ~Fetchable(graphics[g].message_id)

\* the step leaves the record removed, or, when the look-up itself raised
\* another error, as it was, with its handler not going on to send anything
RemovedOrUntouched(g, goes_on) ==
    /\ ~graphics'[g].persisted \/ (graphics'[g] = graphics[g] /\ ~goes_on)
    /\ NewlySent = {}

\* C12: when _request_deletion_approval, _send_reminder or
\* handle_deletion_approval looks for the content of the record in hand and
\* the content does not exist any more (its message was deleted, or its
\* channel), the record is removed from the store and neither a reminder
\* reply nor an approval prompt is sent.  Where the look-up awaits a call that
\* can raise another error, the record may also be left as it was.
C12_GoneContentRemovesRecord ==
    [][ \A g \in Rows(graphics) : ContentGone(g) =>
          /\ (expiry.pc = "fetch" /\ expiry' # expiry /\ g = Head(expiry.queue)) =>
                RemovedOrUntouched(g, expiry'.pc = "send" /\ expiry'.queue = expiry.queue)
          /\ (reminder.pc = "fetch" /\ reminder' # reminder /\ g = Head(reminder.queue)) =>
                RemovedOrUntouched(g, reminder'.pc = "reply" /\ reminder'.queue = reminder.queue)
          /\ (approval.pc = "fetch" /\ approval' # approval /\ g = approval.graphic) =>
                RemovedOrUntouched(g, approval'.pc # "idle")
          \* _send_reminder finds no channel: no call is awaited before
          /\ (/\ expiry' = expiry
              /\ reminder.pc = "idle" \/ g # Head(reminder.queue)
              /\ graphics'[g] # graphics[g]) =>
                ~graphics'[g].persisted
          \* handle_deletion_approval finds no channel
          /\ (\E k \in DOMAIN sent : /\ sent[k].kind = "approval" /\ sent[k].graphic = g
                                       /\ sent[k].live /\ ~sent'[k].live
                                       /\ approval.pc = "idle" /\ approval' = approval) =>
                ~graphics'[g].persisted
      ]_vars

\* C13: a Forbidden failure is not retried.  When moderator.send raised
\* discord.Forbidden (the task is in _mark_no_response) the record in hand
\* comes out marked: marked_no_date is TRUE; a pass of check_expired_graphics
\* takes up no marked record, and a pass of check_and_send_reminders no
\* record that is marked or has reminder_sent TRUE.
C13_ForbiddenNotRetried ==
    [][ /\ (expiry.pc = "mark" /\ expiry' # expiry /\ graphics[Head(expiry.queue)].persisted) =>
              graphics'[Head(expiry.queue)].marked_no_date
        /\ (expiry.pc = "idle" /\ expiry'.pc # "idle") =>
              \A k \in DOMAIN expiry'.queue : ~graphics[expiry'.queue[k]].marked_no_date
        /\ (reminder.pc = "idle" /\ reminder'.pc # "idle") =>
              \A k \in DOMAIN reminder'.queue :
                  /\ ~graphics[reminder'.queue[k]].marked_no_date
                  /\ ~graphics[reminder'.queue[k]].reminder_sent
      ]_vars

\* C14: when _request_date_format ends for a message without its DM having
\* been delivered (moderator.send raised discord.Forbidden), the message is
\* left for manual attention: it has a record with marked_no_date TRUE, or at
\* least a tracking entry.
C14_UndeliveredRequestIsMarked ==
    [][ \A m \in date_request \ date_request' :
            NewlySent = {} =>
                \/ \E g \in Rows(graphics') :
                      graphics'[g].message_id = m /\ graphics'[g].marked_no_date
                \/ m \in pending_date_requests'
      ]_vars

\* C15: handle_deletion_approval with approved = False never deletes the
\* content message; and when it has reached its response for a record whose
\* message still exists and ends, the record is deleted and no reminder reply
\* of the record is left standing.
C15_DenyKeepsContentDropsRecord ==
    [][ (approval.pc # "idle" /\ ~approval.approved) =>
          /\ \A m \in MsgIds :
                msgs'[m].state = "deleted_on_approval" => msgs[m].state = "deleted_on_approval"
          /\ (/\ approval.pc = "respond" /\ approval'.pc = "idle"
              /\ Fetchable(graphics[approval.graphic].message_id)) =>
                /\ ~graphics'[approval.graphic].persisted
                /\ \A k \in RemindersFor(approval.graphic) : ~sent'[k].live
      ]_vars

(***************************************************************************)
(* The behaviours in which no content is edited and no channel is taken    *)
(* out of monitoring: a record an evaluator holds loses its row only by    *)
(* remove-graphics-monitor (or by the handler that holds it).              *)
(***************************************************************************)
RemovalNext ==
    \/ Tick
    \/ \E m \in MsgIds : DeleteMessage(m)
    \/ \E c \in ChannelIds : DeleteChannel(c)
    \/ \E m \in MsgIds, c \in ChannelIds, text \in Texts,
          bot \in BOOLEAN, manage_messages \in BOOLEAN, attachments \in BOOLEAN :
            on_message(m, c, text, bot, manage_messages, attachments)
    \/ check_expired_graphics
    \/ ExpiryFetched
    \/ ExpirySent
    \/ ExpiryMarked
    \/ check_and_send_reminders
    \/ ReminderFetched
    \/ ReminderReplied
    \/ ReminderReacted
    \/ \E m \in MsgIds : DateRequestSent(m)
    \/ \E k \in 1..MaxSent : skip_button(k)
    \/ \E k \in 1..MaxSent, value \in ModalInputs : on_submit(k, value)
    \/ ModalFetched
    \/ \E c \in ChannelIds : enable_channel(c)
    \/ \E m \in MsgIds, c \in ChannelIds, date_range \in Texts : add_graphics_monitor(m, c, date_range)
    \/ AddFetched
    \/ \E m \in MsgIds : remove_graphics_monitor(m)
    \/ RemoveRetracted
    \/ \E k \in 1..MaxSent, approved \in BOOLEAN : ApprovalView(k, approved)
    \/ ApprovalFetched
    \/ ApprovalRetracted
    \/ ApprovalDeleted
    \/ ApprovalResponded

RemovalSpec == Init /\ [][RemovalNext]_vars

\* C16: remove-graphics-monitor is safe while an evaluator is suspended on
\* the same record: once the record has lost its row, no reminder reply and
\* no approval prompt is sent for it, and no handler deletes its content.
C16_RemovalSafeMidEvaluation ==
    [][ /\ \A k \in NewlySent :
              sent'[k].kind \in {"reminder", "approval"} =>
                  graphics[sent'[k].graphic].persisted
        /\ \A m \in MsgIds :
              (msgs[m].state = "live" /\ msgs'[m].state = "deleted_on_approval") =>
                  QueryByMessage(graphics, m) # NoId
      ]_vars

\* the scheduling fields of a record
Scheduling(r) == << r.date_format, r.expiry_date, r.in_effect_date, r.reminder_scheduled_time >>

EditNext ==
    \/ Tick
    \/ \E m \in MsgIds : DeleteMessage(m)
    \/ \E c \in ChannelIds : DeleteChannel(c)
    \/ \E m \in MsgIds, c \in ChannelIds, text \in Texts,
          bot \in BOOLEAN, manage_messages \in BOOLEAN, attachments \in BOOLEAN :
            on_message(m, c, text, bot, manage_messages, attachments)
    \/ \E m \in MsgIds, text \in Texts : on_message_edit(m, text)
    \/ check_expired_graphics
    \/ ExpiryFetched
    \/ ExpirySent
    \/ ExpiryMarked
    \/ check_and_send_reminders
    \/ ReminderFetched
    \/ ReminderReplied
    \/ ReminderReacted
    \/ \E m \in MsgIds : DateRequestSent(m)
    \/ \E k \in 1..MaxSent : skip_button(k)
    \/ \E k \in 1..MaxSent, value \in ModalInputs : on_submit(k, value)
    \/ ModalFetched
    \/ \E c \in ChannelIds : enable_channel(c)
    \/ \E m \in MsgIds, c \in ChannelIds, date_range \in Texts : add_graphics_monitor(m, c, date_range)
    \/ AddFetched
    \/ \E k \in 1..MaxSent, approved \in BOOLEAN : ApprovalView(k, approved)
    \/ ApprovalFetched
    \/ ApprovalRetracted
    \/ ApprovalDeleted
    \/ ApprovalResponded

EditSpec == Init /\ [][EditNext]_vars

\* C18: when on_message_edit removes the record of a message whose new text
\* does not parse (the reminder not being marked as sent), no reminder reply
\* of that record is left standing.
C18_FailedReparseRetractsReminder ==
    [][ \A g \in Rows(graphics) :
          (/\ ~graphics'[g].persisted
           /\ expiry' = expiry /\ reminder' = reminder /\ approval' = approval) =>
              /\ ~graphics[g].reminder_sent
              /\ \A k \in RemindersFor(g) : ~sent'[k].live
      ]_vars

\* C19: on_message for a message of a bot, in a channel that is not
\* monitored, of an author without manage_messages, or without attachments
\* creates no record and requests no date format: the store, the bot's
\* messages and the tracked requests are as they were.
C19_IgnoredMessageChangesNothing ==
    [][ \A m \in MsgIds, c \in ChannelIds, text \in Texts :
        \A bot \in BOOLEAN, manage_messages \in BOOLEAN, attachments \in BOOLEAN :
          (/\ on_message(m, c, text, bot, manage_messages, attachments)
           /\ bot \/ c \notin monitored \/ ~manage_messages \/ ~attachments) =>
              /\ graphics' = graphics
              /\ date_request' = date_request
              /\ sent' = sent
              /\ pending_date_requests' = pending_date_requests
      ]_vars

\* C19, its case: a message was posted and nothing was made of it
C19_MessageIgnored ==
    \E m \in MsgIds :
        /\ msgs[m].state = "live"
        /\ graphics = <<>>
        /\ date_request = {}
        /\ pending_date_requests = {}
        /\ sent = <<>>

\* the record DateInputModal.on_submit adds for message m out of parse_result
ScheduledByModal(gs, m, parse_result) ==
    \E g \in Rows(gs) :
        gs[g] = MonitoredGraphic(m, msgs[m].channel_id,
                                 parse_result.original_date_string,
                                 parse_result.expiry_datetime, None, None)

TwoMsgIds == {1, 2}
TwoChannelIds == {1, 2}

TwoInit ==
    /\ now = Instants[1]
    /\ monitored = {}
    /\ channelGone = {}
    /\ msgs = [m \in TwoMsgIds |-> NoMessage]
    /\ graphics = <<>>
    /\ sent = <<>>
    /\ pending_date_requests = {}
    /\ expiry = [pc |-> "idle", queue |-> <<>>]
    /\ reminder = [pc |-> "idle", queue |-> <<>>, reminder_message |-> NoId]
    /\ date_request = {}
    /\ add_cmd = Idle
    /\ remove_cmd = Idle
    /\ approval = Idle
    /\ modal = Idle
    /\ call = NoCall

TwoNext ==
    \/ Tick
    \/ \E m \in TwoMsgIds, c \in TwoChannelIds,
          bot \in BOOLEAN, manage_messages \in BOOLEAN, attachments \in BOOLEAN :
            on_message(m, c, TextRange, bot, manage_messages, attachments)
    \/ check_expired_graphics
    \/ ExpiryFetched
    \/ ExpirySent
    \/ ExpiryMarked
    \/ \E c \in TwoChannelIds : enable_channel(c)
    \/ \E c \in TwoChannelIds : disable_channel(c)
    \/ \E m \in TwoMsgIds, c \in TwoChannelIds : add_graphics_monitor(m, c, TextRange)
    \/ AddFetched

TwoSpec == TwoInit /\ [][TwoNext]_vars

\* C21: the step of disable-channel on a monitored channel c leaves c not
\* monitored and no row of MonitoredGraphic with channel_id c, and every
\* record of another channel as it was.
C21_DisableCascades ==
    [][ \A c \in TwoChannelIds :
          (c \in monitored /\ c \notin monitored') =>
              /\ \A g \in Rows(graphics') : graphics'[g].channel_id # c
              /\ DOMAIN graphics' = DOMAIN graphics
              /\ \A g \in DOMAIN graphics :
                    graphics[g].channel_id # c => graphics'[g] = graphics[g]
      ]_vars

\* C21, its case: channel 1 was disabled while it had a record, and the
\* record of the still monitored channel 2 is in the table
C21_DisabledBesideAnother ==
    /\ monitored = {2}
    /\ \E g \in DOMAIN graphics : graphics[g].channel_id = 1 /\ ~graphics[g].persisted
    /\ \E g \in Rows(graphics) : graphics[g].channel_id = 2

(***************************************************************************)
(* DateParser.parse_date and _calculate_reminder_time called on their own: *)
(* the arguments are drawn from the sets below and the call returns what   *)
(* the function computes.                                                  *)
(***************************************************************************)
\* n as one digit and as two, the way a date is typed
One(n) == <<DigitChars[n + 1]>>
Two(n) == <<DigitChars[(n \div 10) + 1], DigitChars[(n % 10) + 1]>>
Digits(n, padded) == IF padded \/ n > 9 THEN Two(n) ELSE One(n)

\* datetime.now() at the call of parse_date: a March and a July of a common
\* year, an August, a February of a leap year, a December before a leap year
ParserClock ==
    { MkDateTime(2025, 3, 1, 12, 0, 0), MkDateTime(2025, 7, 31, 23, 59, 59),
      MkDateTime(2025, 8, 1, 0, 0, 0), MkDateTime(2024, 2, 10, 8, 0, 0),
      MkDateTime(2023, 12, 20, 18, 30, 0) }

\* day and month as typed: ends of months, the 29th and 30th of February,
\* a month 13, a day 0 and a day 32
TypedDates ==
    { <<1, 1>>, <<5, 1>>, <<28, 2>>, <<29, 2>>, <<30, 2>>, <<5, 3>>, <<31, 4>>,
      <<30, 6>>, <<4, 10>>, <<25, 12>>, <<31, 12>>, <<15, 13>>, <<0, 5>>, <<32, 1>> }
\* hour and minute as typed, with an hour 24 and a minute 60
TypedTimes == { <<0, 0>>, <<14, 0>>, <<17, 30>>, <<23, 59>>, <<24, 0>>, <<10, 60>> }

Dash == <<"-">>
SpacedDash == <<" ", "-", " ">>
\* text around a date
Before == <<"E", "v", "e", "n", "t", " ", "f", "r", "o", "m", " ">>
After == <<" ", "i", "n", " ", "t", "o", "w", "n">>

\* D1.M1-D2.M2 as typed
DayRangeText(d1, m1, d2, m2, dash, padded) ==
    Digits(d1, padded) \o <<".">> \o Digits(m1, padded) \o dash
    \o Digits(d2, padded) \o <<".">> \o Digits(m2, padded)

\* D.M HH1:MM1-HH2:MM2 as typed
IntradayText(d, m, h1, mi1, h2, mi2, dash, padded) ==
    Digits(d, padded) \o <<".">> \o Digits(m, padded) \o <<" ">>
    \o Digits(h1, padded) \o <<":">> \o Two(mi1) \o dash
    \o Digits(h2, padded) \o <<":">> \o Two(mi2)

\* a typed day-range: what is before it, its numbers, its dash, whether its
\* numbers are padded with a zero, what is after it
DayRangeCases ==
    { [pre |-> <<>>, d1 |-> a[1], m1 |-> a[2], d2 |-> b[1], m2 |-> b[2],
       dash |-> Dash, padded |-> TRUE, suf |-> <<>>] : a \in TypedDates, b \in TypedDates }
    \cup
    { [pre |-> Before, d1 |-> a[1], m1 |-> a[2], d2 |-> b[1], m2 |-> b[2],
       dash |-> SpacedDash, padded |-> FALSE, suf |-> After] :
         a \in {<<1, 1>>, <<28, 2>>, <<25, 12>>, <<30, 2>>},
         b \in {<<5, 1>>, <<5, 3>>, <<31, 12>>, <<15, 13>>} }
DayRangeLabel(c) == DayRangeText(c.d1, c.m1, c.d2, c.m2, c.dash, c.padded)
DayRangeContent(c) == c.pre \o DayRangeLabel(c) \o c.suf

\* a typed intraday range
IntradayCases ==
    { [pre |-> <<>>, d |-> a[1], m |-> a[2], h1 |-> t[1], mi1 |-> t[2],
       h2 |-> u[1], mi2 |-> u[2], dash |-> Dash, padded |-> TRUE, suf |-> <<>>] :
         a \in {<<4, 10>>, <<29, 2>>, <<30, 2>>, <<31, 12>>, <<1, 1>>, <<15, 13>>},
         t \in TypedTimes, u \in TypedTimes }
    \cup
    { [pre |-> Before, d |-> a[1], m |-> a[2], h1 |-> t[1], mi1 |-> t[2],
       h2 |-> u[1], mi2 |-> u[2], dash |-> SpacedDash, padded |-> FALSE, suf |-> After] :
         a \in {<<4, 10>>, <<1, 1>>, <<31, 12>>},
         t \in {<<9, 5>>, <<14, 0>>}, u \in {<<17, 0>>, <<24, 0>>} }
IntradayLabel(c) == IntradayText(c.d, c.m, c.h1, c.mi1, c.h2, c.mi2, c.dash, c.padded)
IntradayContent(c) == c.pre \o IntradayLabel(c) \o c.suf

\* the month names as a moderator types them, by month number
EnglishMonths ==
    << <<"j", "a", "n", "u", "a", "r", "y">>,
       <<"f", "e", "b", "r", "u", "a", "r", "y">>,
       <<"m", "a", "r", "c", "h">>,
       <<"a", "p", "r", "i", "l">>,
       <<"m", "a", "y">>,
       <<"j", "u", "n", "e">>,
       <<"j", "u", "l", "y">>,
       <<"a", "u", "g", "u", "s", "t">>,
       <<"s", "e", "p", "t", "e", "m", "b", "e", "r">>,
       <<"o", "c", "t", "o", "b", "e", "r">>,
       <<"n", "o", "v", "e", "m", "b", "e", "r">>,
       <<"d", "e", "c", "e", "m", "b", "e", "r">> >>
\* the Polish names typed without diacritics
PolishMonths ==
    << <<"s", "t", "y", "c", "z", "e", "n">>,
       <<"l", "u", "t", "y">>,
       <<"m", "a", "r", "z", "e", "c">>,
       <<"k", "w", "i", "e", "c", "i", "e", "n">>,
       <<"m", "a", "j">>,
       <<"c", "z", "e", "r", "w", "i", "e", "c">>,
       <<"l", "i", "p", "i", "e", "c">>,
       <<"s", "i", "e", "r", "p", "i", "e", "n">>,
       <<"w", "r", "z", "e", "s", "i", "e", "n">>,
       <<"p", "a", "z", "d", "z", "i", "e", "r", "n", "i", "k">>,
       <<"l", "i", "s", "t", "o", "p", "a", "d">>,
       <<"g", "r", "u", "d", "z", "i", "e", "n">> >>

\* the Polish names that have a diacritic, typed with it
PolishDiacritics ==
    { [name |-> <<"s", "t", "y", "c", "z", "e", "U+0144">>, month |-> 1],
      [name |-> <<"k", "w", "i", "e", "c", "i", "e", "U+0144">>, month |-> 4],
      [name |-> <<"s", "i", "e", "r", "p", "i", "e", "U+0144">>, month |-> 8],
      [name |-> <<"w", "r", "z", "e", "s", "i", "e", "U+0144">>, month |-> 9],
      [name |-> <<"p", "a", "U+017A", "d", "z", "i", "e", "r", "n", "i", "k">>, month |-> 10],
      [name |-> <<"g", "r", "u", "d", "z", "i", "e", "U+0144">>, month |-> 12] }

\* str.upper() of the characters above
UpperChar(c) ==
    IF c \in Range(LowerChars)
    THEN UpperChars[CHOOSE i \in DOMAIN LowerChars : LowerChars[i] = c]
    ELSE c
Upper(text) == [i \in DOMAIN text |-> UpperChar(text[i])]
Capitalize(text) == [i \in DOMAIN text |-> IF i = 1 THEN UpperChar(text[i]) ELSE text[i]]

\* a typed month name: lower case, capitalised or upper case, alone or in a
\* sentence
MonthCases ==
    UNION { { [pre |-> <<>>, name |-> n, month |-> k, suf |-> <<>>] :
                n \in {EnglishMonths[k], PolishMonths[k], Capitalize(PolishMonths[k]),
                       Upper(EnglishMonths[k]), Upper(PolishMonths[k])} } : k \in 1..12 }
    \cup
    { [pre |-> Before, name |-> Capitalize(EnglishMonths[k]), month |-> k, suf |-> After] :
        k \in 1..12 }
MonthContent(c) == c.pre \o c.name \o c.suf

\* texts with two dates in them, in either order
And == <<" ", "a", "n", "d", " ">>
PlainDayRange(a, b) ==
    [pre |-> <<>>, d1 |-> a[1], m1 |-> a[2], d2 |-> b[1], m2 |-> b[2],
     dash |-> Dash, padded |-> TRUE, suf |-> <<>>]
PlainIntraday(a, t, u) ==
    [pre |-> <<>>, d |-> a[1], m |-> a[2], h1 |-> t[1], mi1 |-> t[2],
     h2 |-> u[1], mi2 |-> u[2], dash |-> Dash, padded |-> TRUE, suf |-> <<>>]
PlainMonth(k) == [pre |-> <<>>, name |-> EnglishMonths[k], month |-> k, suf |-> <<>>]
MixedDayRanges ==
    { PlainDayRange(<<25, 12>>, <<31, 12>>), PlainDayRange(<<1, 1>>, <<5, 1>>),
      PlainDayRange(<<29, 2>>, <<5, 3>>), PlainDayRange(<<30, 2>>, <<31, 12>>),
      PlainDayRange(<<15, 13>>, <<15, 13>>) }
MixedIntradays ==
    { PlainIntraday(<<4, 10>>, <<14, 0>>, <<17, 30>>),
      PlainIntraday(<<4, 10>>, <<24, 0>>, <<17, 30>>),
      PlainIntraday(<<30, 2>>, <<14, 0>>, <<17, 30>>) }
MixedMonths == { PlainMonth(3), PlainMonth(12) }
Joined(first, second, swapped) ==
    IF swapped THEN second \o And \o first ELSE first \o And \o second
DayRangeWithIntraday ==
    { [range |-> r, intraday |-> i, swapped |-> b] :
        r \in MixedDayRanges, i \in MixedIntradays, b \in BOOLEAN }
DayRangeWithMonth ==
    { [range |-> r, month |-> n, swapped |-> b] :
        r \in MixedDayRanges, n \in MixedMonths, b \in BOOLEAN }
IntradayWithMonth ==
    { [intraday |-> i, month |-> n, swapped |-> b] :
        i \in MixedIntradays, n \in MixedMonths, b \in BOOLEAN }
MixedContent(c) ==
    IF "range" \in DOMAIN c /\ "intraday" \in DOMAIN c
    THEN Joined(DayRangeContent(c.range), IntradayContent(c.intraday), c.swapped)
    ELSE IF "range" \in DOMAIN c
    THEN Joined(DayRangeContent(c.range), MonthContent(c.month), c.swapped)
    ELSE Joined(IntradayContent(c.intraday), MonthContent(c.month), c.swapped)

\* texts with no date in them: a number, and month names inside longer words
NoDateTexts ==
    { TextNoDate, <<"m", "a", "y", "b", "e">>, <<"m", "a", "r", "c", "h", "i", "n", "g">>, <<"1", "2", ".", "5">>,
      <<"2", "5", ".", "1", "2">>, <<"1", "4", ":", "0", "0", "-", "1", "7", ":", "0", "0">> }

\* the contents parse_date is called with
ParserTexts ==
    {DayRangeContent(c) : c \in DayRangeCases}
    \cup {IntradayContent(c) : c \in IntradayCases}
    \cup {MonthContent(c) : c \in MonthCases}
    \cup {c.name : c \in PolishDiacritics}
    \cup {Upper(c.name) : c \in PolishDiacritics}
    \cup {MixedContent(c) : c \in DayRangeWithIntraday \cup DayRangeWithMonth \cup IntradayWithMonth}
    \cup {Joined(MixedContent(c), MonthContent(PlainMonth(3)), FALSE) : c \in DayRangeWithIntraday}
    \cup NoDateTexts

ParseCalls ==
    { [fn |-> "parse_date", content |-> content, current_date |-> current_date,
       returned |-> FALSE, result |-> NoParse, label_of |-> NoParse] :
         content \in ParserTexts, current_date \in ParserClock }

\* the start instants _calculate_reminder_time is called with: the days
\* around both changes of the Warsaw clock in 2025, a first of January, a
\* first of March of a leap year, and starts early and late in the day
ReminderStarts ==
    { MkDateTime(2025, 3, 30, 0, 0, 0), MkDateTime(2025, 3, 31, 0, 0, 0),
      MkDateTime(2025, 10, 26, 0, 0, 0), MkDateTime(2025, 10, 27, 0, 0, 0),
      MkDateTime(2025, 1, 1, 0, 0, 0), MkDateTime(2024, 3, 1, 0, 0, 0),
      MkDateTime(2025, 3, 8, 0, 0, 0), MkDateTime(2025, 10, 4, 14, 0, 0),
      MkDateTime(2025, 7, 15, 0, 30, 0), MkDateTime(2025, 7, 15, 23, 30, 0) }
\* how long before the start the message was posted: around 48 hours, long
\* before, at the start and a day after it
ReminderLeads ==
    { Timedelta(0, 48, 0), Timedelta(0, 48, -1), Timedelta(0, 48, 1), Timedelta(0, 47, 0),
      Timedelta(3, 0, 0), Timedelta(30, 0, 0), 0, Timedelta(-1, 0, 0) }

ReminderCalls ==
    { [fn |-> "_calculate_reminder_time", in_effect_datetime |-> start,
       message_posted_at |-> start - lead, returned |-> FALSE, result |-> None] :
         start \in ReminderStarts, lead \in ReminderLeads }

CallInit ==
    /\ now = Instants[1]
    /\ monitored = {}
    /\ channelGone = {}
    /\ msgs = [m \in MsgIds |-> NoMessage]
    /\ graphics = <<>>
    /\ sent = <<>>
    /\ pending_date_requests = {}
    /\ expiry = [pc |-> "idle", queue |-> <<>>]
    /\ reminder = [pc |-> "idle", queue |-> <<>>, reminder_message |-> NoId]
    /\ date_request = {}
    /\ add_cmd = Idle
    /\ remove_cmd = Idle
    /\ approval = Idle
    /\ modal = Idle
    /\ call \in ParseCalls \cup ReminderCalls

\* DateParser.parse_date(content) returns
ParseDate ==
    /\ call.fn = "parse_date"
    /\ ~call.returned
    /\ call' = [call EXCEPT !.returned = TRUE,
                            !.result = parse_date(call.content, call.current_date)]
    /\ UNCHANGED << now, monitored, channelGone, msgs, graphics, sent,
                    pending_date_requests, expiry, reminder, date_request, add_cmd,
                    remove_cmd, approval, modal >>

\* self._calculate_reminder_time(in_effect_datetime, message_posted_at) returns
CalculateReminderTime ==
    /\ call.fn = "_calculate_reminder_time"
    /\ ~call.returned
    /\ call' = [call EXCEPT !.returned = TRUE,
                            !.result = _calculate_reminder_time(call.in_effect_datetime,
                                                                call.message_posted_at)]
    /\ UNCHANGED << now, monitored, channelGone, msgs, graphics, sent,
                    pending_date_requests, expiry, reminder, date_request, add_cmd,
                    remove_cmd, approval, modal >>

\* DateParser.parse_date(label) returns, label being the original_date_string
\* that a call returned, read at the same clock reading; label_of keeps what
\* that call returned
ParseLabel ==
    /\ call.fn = "parse_date"
    /\ call.returned
    /\ call.result # NoParse
    /\ call' = [fn |-> "parse_date",
                content |-> call.result.original_date_string,
                current_date |-> call.current_date,
                returned |-> TRUE,
                result |-> parse_date(call.result.original_date_string, call.current_date),
                label_of |-> call.result]
    /\ UNCHANGED << now, monitored, channelGone, msgs, graphics, sent,
                    pending_date_requests, expiry, reminder, date_request, add_cmd,
                    remove_cmd, approval, modal >>

CallNext ==
    \/ ParseDate
    \/ CalculateReminderTime
    \/ ParseLabel

CallSpec == CallInit /\ [][CallNext]_vars

(***************************************************************************)
(* What the calls returned                                                 *)
(***************************************************************************)
Returned(fn) == call.fn = fn /\ call.returned

SecondOfDay(t) == t % 86400
DateOf(t) == << YearOf(t), MonthOf(t), DayOf(t) >>
\* the calendar day after the d-th of month m of year y
NextDay(y, m, d) ==
    IF d < DaysInMonth(y, m) THEN << y, m, d + 1 >>
    ELSE IF m < 12 THEN << y, m + 1, 1 >>
    ELSE << y + 1, 1, 1 >>
ValidDate(y, m, d) == m \in 1..12 /\ d \in 1..DaysInMonth(y, m)
ValidTime(h, mi) == h \in 0..23 /\ mi \in 0..59
\* the year of a window that starts in month M, for a text read at
\* current_date, and the year a day-range that goes from month M1 to M2 ends in
InferredYear(current_date, M) ==
    IF MonthOf(current_date) > M + 6 THEN YearOf(current_date) + 1 ELSE YearOf(current_date)
InferredEndYear(current_date, M1, M2) ==
    IF M2 < M1 THEN InferredYear(current_date, M1) + 1 ELSE InferredYear(current_date, M1)
\* the typed day-range c names two days of the calendar
ValidDayRange(c, current_date) ==
    /\ ValidDate(InferredYear(current_date, c.m1), c.m1, c.d1)
    /\ ValidDate(InferredEndYear(current_date, c.m1, c.m2), c.m2, c.d2)

\* C22: parse_date on a text whose day-range D1.M1-D2.M2 names two days of
\* the calendar returns the typed range as the label, the start day at
\* 00:00:00 as the start, and as the expiry 23:59:59 of the calendar day after
\* the end day, over the ends of months and of the year.
C22_DayRangeWindow ==
    \A c \in DayRangeCases :
        (/\ Returned("parse_date")
         /\ call.content = DayRangeContent(c)
         /\ ValidDayRange(c, call.current_date)) =>
            LET r == call.result
                end == r.expiry_datetime - Timedelta(1, 0, 0)
            IN  /\ r.original_date_string = DayRangeLabel(c)
                /\ r.in_effect_datetime # None
                /\ MonthOf(r.in_effect_datetime) = c.m1
                /\ DayOf(r.in_effect_datetime) = c.d1
                /\ SecondOfDay(r.in_effect_datetime) = 0
                /\ r.expiry_datetime # None
                /\ MonthOf(end) = c.m2 /\ DayOf(end) = c.d2
                /\ SecondOfDay(r.expiry_datetime) = Timedelta(0, 23, 59 * 60 + 59)
                /\ DateOf(r.expiry_datetime) = NextDay(YearOf(end), c.m2, c.d2)

\* C22, its case: "25.12-31.12" was parsed and expires on the first of
\* January of the year after its start, at 23:59:59
C22_YearEndRollsOver ==
    /\ Returned("parse_date")
    /\ call.content = DayRangeContent(PlainDayRange(<<25, 12>>, <<31, 12>>))
    /\ call.result.original_date_string = call.content
    /\ DateOf(call.result.expiry_datetime) =
          << YearOf(call.result.in_effect_datetime) + 1, 1, 1 >>
    /\ SecondOfDay(call.result.expiry_datetime) = 86399

\* the typed intraday range c names a day of the calendar and two times
ValidIntraday(c, current_date) ==
    /\ ValidDate(InferredYear(current_date, c.m), c.m, c.d)
    /\ ValidTime(c.h1, c.mi1)
    /\ ValidTime(c.h2, c.mi2)

\* C23: parse_date on a text with no day-range whose intraday range
\* D.M HH1:MM1-HH2:MM2 names a day and two times returns the range as typed,
\* with its spaces, as the label, HH1:MM1 of the day as the start and HH2:MM2
\* of the calendar day after it as the expiry.
C23_IntradayWindow ==
    \A c \in IntradayCases :
        (/\ Returned("parse_date")
         /\ call.content = IntradayContent(c)
         /\ ValidIntraday(c, call.current_date)) =>
            LET r == call.result
                end == r.expiry_datetime - Timedelta(1, 0, 0)
            IN  /\ r.original_date_string = IntradayLabel(c)
                /\ r.in_effect_datetime # None
                /\ MonthOf(r.in_effect_datetime) = c.m
                /\ DayOf(r.in_effect_datetime) = c.d
                /\ SecondOfDay(r.in_effect_datetime) = Timedelta(0, c.h1, c.mi1 * 60)
                /\ r.expiry_datetime # None
                /\ DateOf(end) = DateOf(r.in_effect_datetime)
                /\ SecondOfDay(r.expiry_datetime) = Timedelta(0, c.h2, c.mi2 * 60)
                /\ DateOf(r.expiry_datetime) = NextDay(YearOf(end), c.m, c.d)

\* C23, its case: "4.10 14:00 - 17:00" inside a sentence was parsed: the
\* label keeps the spaces and the expiry is the fifth of October, 17:00
C23_SpacedIntradayParsed ==
    \E c \in IntradayCases :
        /\ c.dash = SpacedDash /\ c.pre = Before
        /\ c.d = 4 /\ c.m = 10 /\ c.h1 = 14 /\ c.h2 = 17
        /\ Returned("parse_date")
        /\ call.content = IntradayContent(c)
        /\ call.result.original_date_string = IntradayLabel(c)
        /\ MonthOf(call.result.expiry_datetime) = 10
        /\ DayOf(call.result.expiry_datetime) = 5
        /\ SecondOfDay(call.result.expiry_datetime) = Timedelta(0, 17, 0)

\* C24: parse_date on a text whose only date is the name of a month returns
\* the first instant of that month as the start and, as the expiry, one day
\* after the month's last second: the first of the next month at 23:59:59,
\* in January of the next year for December, and after the 28th or the 29th
\* for February.
C24_MonthNameWindow ==
    \A c \in MonthCases :
        (Returned("parse_date") /\ call.content = MonthContent(c)) =>
            LET r == call.result
                last == r.expiry_datetime - Timedelta(1, 0, 0)
            IN  /\ r.in_effect_datetime # None
                /\ MonthOf(r.in_effect_datetime) = c.month
                /\ DayOf(r.in_effect_datetime) = 1
                /\ SecondOfDay(r.in_effect_datetime) = 0
                /\ r.expiry_datetime # None
                /\ YearOf(last) = YearOf(r.in_effect_datetime)
                /\ MonthOf(last) = c.month
                /\ DayOf(last) = DaysInMonth(YearOf(last), c.month)
                /\ SecondOfDay(last) = Timedelta(0, 23, 59 * 60 + 59)
                /\ DateOf(r.expiry_datetime) =
                      IF c.month = 12 THEN << YearOf(last) + 1, 1, 1 >>
                      ELSE << YearOf(last), c.month + 1, 1 >>

\* C24, its case: "luty" was parsed for a leap year: the month ends on the
\* 29th and the expiry is the first of March
C24_LeapFebruaryParsed ==
    /\ Returned("parse_date")
    /\ call.content = PolishMonths[2]
    /\ IsLeap(YearOf(call.result.in_effect_datetime))
    /\ DayOf(call.result.expiry_datetime - Timedelta(1, 0, 0)) = 29
    /\ MonthOf(call.result.expiry_datetime) = 3
    /\ DayOf(call.result.expiry_datetime) = 1

\* C25: parse_date("styczen") returns the label "Styczeń", the name with its
\* diacritic, and an expiry on the first of February.
C25_StyczenLabel ==
    (Returned("parse_date") /\ call.content = PolishMonths[1]) =>
        /\ call.result.original_date_string = <<"S", "t", "y", "c", "z", "e", "U+0144">>
        /\ MonthOf(call.result.expiry_datetime) = 2
        /\ DayOf(call.result.expiry_datetime) = 1

C27_FirstPatternWins ==
    Returned("parse_date") =>
        /\ \A c \in DayRangeWithIntraday \cup DayRangeWithMonth :
            (/\ call.content = MixedContent(c)
             /\ ValidDayRange(c.range, call.current_date)) =>
                /\ call.result.original_date_string = DayRangeLabel(c.range)
                /\ MonthOf(call.result.in_effect_datetime) = c.range.m1
                /\ DayOf(call.result.in_effect_datetime) = c.range.d1
                /\ SecondOfDay(call.result.expiry_datetime) = 86399
        /\ \A c \in IntradayWithMonth :
            (/\ call.content = MixedContent(c)
             /\ ValidIntraday(c.intraday, call.current_date)) =>
                /\ call.result.original_date_string = IntradayLabel(c.intraday)
                /\ MonthOf(call.result.in_effect_datetime) = c.intraday.m
                /\ SecondOfDay(call.result.expiry_datetime)
                      = Timedelta(0, c.intraday.h2, c.intraday.mi2 * 60)

\* C27, its case: a text with an intraday range first and a day-range after
\* it gave the day-range
C27_LaterDayRangeWon ==
    \E c \in DayRangeWithIntraday :
        /\ c.swapped
        /\ Returned("parse_date")
        /\ ValidIntraday(c.intraday, call.current_date)
        /\ call.content = MixedContent(c)
        /\ call.result.original_date_string = DayRangeLabel(c.range)

\* C28 as stated: a text whose day-range or intraday range names a day or a
\* time that does not exist gives no label, no start and no expiry.
C28_InvalidValueYieldsNothing ==
    Returned("parse_date") =>
        /\ \A c \in DayRangeCases :
            (call.content = DayRangeContent(c) /\ ~ValidDayRange(c, call.current_date))
                => call.result = NoParse
        /\ \A c \in IntradayCases :
            (call.content = IntradayContent(c) /\ ~ValidIntraday(c, call.current_date))
                => call.result = NoParse
        /\ \A c \in DayRangeWithIntraday \cup DayRangeWithMonth :
            (call.content = MixedContent(c) /\ ~ValidDayRange(c.range, call.current_date))
                => call.result = NoParse
        /\ \A c \in IntradayWithMonth :
            (call.content = MixedContent(c) /\ ~ValidIntraday(c.intraday, call.current_date))
                => call.result = NoParse

\* C28: a day-range or an intraday range that names a day or a time that
\* does not exist gives nothing itself, and the patterns after it are still
\* tried: the text gives the window of its intraday range when that one is
\* valid, else of its month name, and no label, start or expiry when it has
\* neither.
C28_InvalidValueFallsThrough ==
    Returned("parse_date") =>
        /\ \A c \in DayRangeCases :
            (call.content = DayRangeContent(c) /\ ~ValidDayRange(c, call.current_date))
                => call.result = NoParse
        /\ \A c \in IntradayCases :
            (call.content = IntradayContent(c) /\ ~ValidIntraday(c, call.current_date))
                => call.result = NoParse
        /\ \A c \in DayRangeWithIntraday :
            (call.content = MixedContent(c) /\ ~ValidDayRange(c.range, call.current_date))
                => IF ValidIntraday(c.intraday, call.current_date)
                   THEN call.result.original_date_string = IntradayLabel(c.intraday)
                   ELSE call.result = NoParse
        /\ \A c \in DayRangeWithMonth :
            (call.content = MixedContent(c) /\ ~ValidDayRange(c.range, call.current_date))
                => /\ call.result.original_date_string = Capitalize(c.month.name)
                   /\ MonthOf(call.result.in_effect_datetime) = c.month.month
        /\ \A c \in IntradayWithMonth :
            (call.content = MixedContent(c) /\ ~ValidIntraday(c.intraday, call.current_date))
                => /\ call.result.original_date_string = Capitalize(c.month.name)
                   /\ MonthOf(call.result.in_effect_datetime) = c.month.month

\* C28, its case: "30.02-31.12" alone, read for a leap year or a common one,
\* gave nothing
C28_ThirtiethOfFebruaryRejected ==
    /\ Returned("parse_date")
    /\ call.content = DayRangeContent(PlainDayRange(<<30, 2>>, <<31, 12>>))
    /\ call.result = NoParse

\* C29: _calculate_reminder_time returns no reminder time when the start is
\* less than 48 hours after the message was posted, a start in the past
\* included, and a reminder time when it is 48 hours or more.
C29_Under48HoursNoReminder ==
    Returned("_calculate_reminder_time") =>
        IF call.in_effect_datetime - call.message_posted_at < 48 * 3600
        THEN call.result = None
        ELSE call.result # None

\* C29, its cases: a message posted exactly 48 hours before the start got a
\* reminder time
C29_ExactlyTwoDaysAhead ==
    /\ Returned("_calculate_reminder_time")
    /\ call.in_effect_datetime - call.message_posted_at = 48 * 3600
    /\ call.result # None

\* the calendar day before the d-th of month m of year y
PrevDay(y, m, d) ==
    IF d > 1 THEN << y, m, d - 1 >>
    ELSE IF m > 1 THEN << y, m - 1, DaysInMonth(y, m - 1) >>
    ELSE << y - 1, 12, 31 >>
\* what a Warsaw clock is ahead of UTC at the instant t: two hours from
\* 01:00 UTC on the last Sunday of March to 01:00 UTC on the last Sunday of
\* October, one hour otherwise
WarsawAheadAt(t) ==
    IF /\ t >= LastSunday(YearOf(t), 3) * 86400 + 3600
       /\ t < LastSunday(YearOf(t), 10) * 86400 + 3600
    THEN 2 * 3600
    ELSE 3600

\* C30: a reminder time that is set is the instant at which a Warsaw clock
\* shows reminder_time_hour:reminder_time_minute on the calendar day before
\* the day of the start.
C30_ReminderOnTheDayBefore ==
    (Returned("_calculate_reminder_time") /\ call.result # None) =>
        LET day == PrevDay(YearOf(call.in_effect_datetime), MonthOf(call.in_effect_datetime),
                           DayOf(call.in_effect_datetime))
            shown == call.result + WarsawAheadAt(call.result)
        IN  /\ DateOf(shown) = day
            /\ SecondOfDay(shown) = reminder_time_hour * 3600 + reminder_time_minute * 60

\* C30, its case: a start on 31 March 2025 has its reminder on the 30th,
\* the day the clocks went forward, at 07:00 UTC
C30_ReminderOnSummerTimeDay ==
    /\ Returned("_calculate_reminder_time")
    /\ call.in_effect_datetime = MkDateTime(2025, 3, 31, 0, 0, 0)
    /\ call.result = MkDateTime(2025, 3, 30, 7, 0, 0)

\* C31: parse_date on the label alone that a successful call returned, read
\* at the same clock reading, succeeds with the start and the expiry of that
\* call.
C31_LabelParsesToSameWindow ==
    (Returned("parse_date") /\ call.label_of # NoParse) =>
        /\ call.result # NoParse
        /\ call.result.in_effect_datetime = call.label_of.in_effect_datetime
        /\ call.result.expiry_datetime = call.label_of.expiry_datetime

\* the display form of the Polish name of month k: capitalised, with its
\* diacritic where the name has one
PolishDisplayName(k) ==
    IF \E c \in PolishDiacritics : c.month = k
    THEN Capitalize((CHOOSE c \in PolishDiacritics : c.month = k).name)
    ELSE Capitalize(PolishMonths[k])
\* the spellings of month k with the label each is to give
MonthSpellings(k) ==
    { [name |-> EnglishMonths[k], label |-> Capitalize(EnglishMonths[k])],
      [name |-> PolishMonths[k], label |-> PolishDisplayName(k)] }
    \cup { [name |-> c.name, label |-> PolishDisplayName(k)] :
             c \in {d \in PolishDiacritics : d.month = k} }

\* C32: parse_date on a month name alone, English or Polish, with or without
\* diacritics, in lower case, capitalised or in upper case, returns a window
\* that starts in that month and the capitalised name with its diacritics as
\* the label.
C32_MonthNamesGiveDisplayLabel ==
    \A k \in 1..12 : \A s \in MonthSpellings(k) :
        (/\ Returned("parse_date")
         /\ call.content \in {s.name, Capitalize(s.name), Upper(s.name)}) =>
            /\ call.result # NoParse
            /\ MonthOf(call.result.in_effect_datetime) = k
            /\ call.result.original_date_string = s.label

\* the content message of the record the approval handler holds
ApprovalContent == graphics[approval.graphic].message_id

\* C33: when the approver affirms, the handler has deleted the content before
\* it deletes the reminder reply of the record.
C33_ContentBeforeReminderReply ==
    [][(ApprovalRetracted /\ approval.approved /\ sent' # sent) =>
          msgs[ApprovalContent].state = "deleted_on_approval"]_vars

\* C33, in the order of the code: when the approver affirms, the handler
\* deals with the reminder reply of the record while the content is not yet
\* deleted, goes to deleting the content only from there (or from the fetch
\* when the record has no reminder reply), and deletes the record only when
\* it has deleted the content.
C33_ReplyThenContentThenRecord ==
    [][/\ (ApprovalRetracted /\ approval.approved) =>
             msgs[ApprovalContent].state # "deleted_on_approval"
       /\ (approval.pc # "delete" /\ approval'.pc = "delete") =>
             \/ approval.pc = "retract"
             \/ /\ approval.pc = "fetch"
                /\ graphics[approval.graphic].reminder_message_id = NoId
       /\ (ApprovalDeleted /\ msgs' # msgs) =>
             /\ approval.approved
             /\ graphics' = graphics
       /\ (ApprovalResponded /\ approval.approved /\ graphics' # graphics) =>
             msgs[ApprovalContent].state = "deleted_on_approval"]_vars

\* C33, its case: the approver affirmed for a record with a reminder reply;
\* the reply and the content are deleted and the record is still in the store
C33_RecordIsLast ==
    /\ approval.pc = "respond"
    /\ approval.approved
    /\ graphics[approval.graphic].persisted
    /\ graphics[approval.graphic].reminder_message_id # NoId
    /\ \A k \in DOMAIN sent :
          SentId(k) = graphics[approval.graphic].reminder_message_id => ~sent[k].live
    /\ msgs[ApprovalContent].state = "deleted_on_approval"

\* Two messages in one channel and the two hourly tasks: a pass of a task
\* can have two records.
BatchNext ==
    \/ Tick
    \/ enable_channel(1)
    \/ \E m \in TwoMsgIds, text \in {TextRange, TextLater} :
          on_message(m, 1, text, FALSE, TRUE, TRUE)
    \/ \E m \in TwoMsgIds : DeleteMessage(m)
    \/ DeleteChannel(1)
    \/ check_expired_graphics
    \/ ExpiryFetched
    \/ ExpirySent
    \/ ExpiryMarked
    \/ check_and_send_reminders
    \/ ReminderFetched
    \/ ReminderReplied
    \/ ReminderReacted

BatchSpec == TwoInit /\ [][BatchNext]_vars

\* queue without its first n records
DropFirst(queue, n) == SubSeq(queue, n + 1, Len(queue))

\* C34: a step of check_expired_graphics or of check_and_send_reminders that
\* ends the processing of a record, by a return or by an exception, goes on
\* with the next record of the pass; the pass ends only when no record is
\* left.  (_send_reminder returns at once, without a step of its own, on the
\* records whose channel is not found.)
C34_PassGoesOnAfterException ==
    [][/\ (expiry.pc # "idle" /\ expiry' # expiry) =>
             /\ expiry'.queue \in {expiry.queue, Tail(expiry.queue)}
             /\ expiry'.pc = "idle" <=> expiry'.queue = <<>>
       /\ (reminder.pc # "idle" /\ reminder' # reminder) =>
             /\ \E n \in 0..Len(reminder.queue) :
                   /\ reminder'.queue = DropFirst(reminder.queue, n)
                   /\ \A i \in 2..n :
                         graphics[reminder.queue[i]].channel_id \in channelGone
             /\ reminder'.pc = "idle" <=> reminder'.queue = <<>>]_vars

\* C34, its case: the expiry pass had two records, the processing of the
\* first ended with nothing done to it although its channel is there, and
\* the task is at the second
C34_SecondRecordInHand ==
    /\ expiry.pc = "fetch"
    /\ expiry.queue = <<2>>
    /\ 1 \in ExpiredGraphics(graphics, now)
    /\ graphics[1].channel_id \notin channelGone
    /\ Fetchable(graphics[1].message_id)

\* the window of the typed intraday range c and of the month k, for a text
\* read at current_date
IntradayWindow(c, current_date) ==
    [in_effect_datetime |->
        MkDateTime(InferredYear(current_date, c.m), c.m, c.d, c.h1, c.mi1, 0),
     expiry_datetime |->
        MkDateTime(InferredYear(current_date, c.m), c.m, c.d, c.h2, c.mi2, 0) + 86400]
MonthWindow(k, current_date) ==
    LET y == InferredYear(current_date, k)
        after == NextDay(y, k, DaysInMonth(y, k))
    IN  [in_effect_datetime |-> MkDateTime(y, k, 1, 0, 0, 0),
         expiry_datetime |-> MkDateTime(after[1], after[2], after[3], 23, 59, 59)]
\* the result r has the start and the expiry of the window w
HasWindow(r, w) ==
    /\ r.in_effect_datetime = w.in_effect_datetime
    /\ r.expiry_datetime = w.expiry_datetime

\* C35: when the day-range of a text is not a date of the calendar,
\* parse_date gives the window of the text's intraday range; when that one
\* is not valid either, or the text has none, the window of its month name;
\* and nothing only when no later pattern is left.  The same from an invalid
\* intraday range to the month name.
C35_NextPatternGivesTheWindow ==
    Returned("parse_date") =>
        /\ \A c \in DayRangeWithIntraday :
            ~ValidDayRange(c.range, call.current_date) =>
                /\ call.content = MixedContent(c) =>
                      IF ValidIntraday(c.intraday, call.current_date)
                      THEN HasWindow(call.result,
                                     IntradayWindow(c.intraday, call.current_date))
                      ELSE call.result = NoParse
                /\ call.content = Joined(MixedContent(c), MonthContent(PlainMonth(3)), FALSE) =>
                      IF ValidIntraday(c.intraday, call.current_date)
                      THEN HasWindow(call.result,
                                     IntradayWindow(c.intraday, call.current_date))
                      ELSE HasWindow(call.result, MonthWindow(3, call.current_date))
        /\ \A c \in DayRangeWithMonth :
            (call.content = MixedContent(c) /\ ~ValidDayRange(c.range, call.current_date))
                => HasWindow(call.result, MonthWindow(c.month.month, call.current_date))
        /\ \A c \in IntradayWithMonth :
            (call.content = MixedContent(c) /\ ~ValidIntraday(c.intraday, call.current_date))
                => HasWindow(call.result, MonthWindow(c.month.month, call.current_date))

\* C35, its case: "30.02-31.12 and 30.02 14:00-17:30 and march", whose
\* day-range and intraday range are both no dates, gave the window of March
C35_TwoRejectedThenMarch ==
    /\ Returned("parse_date")
    /\ call.content =
          Joined(MixedContent([range |-> PlainDayRange(<<30, 2>>, <<31, 12>>),
                               intraday |-> PlainIntraday(<<30, 2>>, <<14, 0>>, <<17, 30>>),
                               swapped |-> FALSE]),
                 MonthContent(PlainMonth(3)), FALSE)
    /\ MonthOf(call.result.in_effect_datetime) = 3
    /\ DayOf(call.result.in_effect_datetime) = 1

(***************************************************************************)
(* The behaviours in which a record is removed by an edit, by              *)
(* remove-graphics-monitor or by disable-channel only while no approval    *)
(* prompt is being sent and no response to one is being handled, and no    *)
(* content or channel is deleted by hand: a record that has no row when    *)
(* handle_deletion_approval deletes the content had none when the button   *)
(* was pressed, and its prompt was sent while it had one.                  *)
(***************************************************************************)
LateApprovalNext ==
    \/ Tick
    \/ \E m \in MsgIds, c \in ChannelIds, text \in Texts,
          bot \in BOOLEAN, manage_messages \in BOOLEAN, attachments \in BOOLEAN :
            on_message(m, c, text, bot, manage_messages, attachments)
    \/ approval.pc = "idle" /\ expiry.pc = "idle" /\ \E m \in MsgIds, text \in Texts : on_message_edit(m, text)
    \/ check_expired_graphics
    \/ ExpiryFetched
    \/ ExpirySent
    \/ ExpiryMarked
    \/ check_and_send_reminders
    \/ ReminderFetched
    \/ ReminderReplied
    \/ ReminderReacted
    \/ \E c \in ChannelIds : enable_channel(c)
    \/ approval.pc = "idle" /\ expiry.pc = "idle" /\ \E c \in ChannelIds : disable_channel(c)
    \/ approval.pc = "idle" /\ expiry.pc = "idle" /\ \E m \in MsgIds : remove_graphics_monitor(m)
    \/ RemoveRetracted
    \/ \E k \in 1..MaxSent, approved \in BOOLEAN : ApprovalView(k, approved)
    \/ ApprovalFetched
    \/ ApprovalRetracted
    \/ ApprovalDeleted
    \/ ApprovalResponded

LateApprovalSpec == Init /\ [][LateApprovalNext]_vars

\* C36: handle_deletion_approval deletes the content only of a record that
\* is in the store: an approve given on a prompt of a record that was removed
\* before deletes nothing.
C36_RemovedRecordContentKept ==
    [][(ApprovalDeleted /\ msgs' # msgs) => graphics[approval.graphic].persisted]_vars

\* C37: every record in the store with an expiry_date has an in_effect_date,
\* and its reminder_scheduled_time is what _calculate_reminder_time gives for
\* that in_effect_date and an instant of posting, whether on_message,
\* add_graphics_monitor or the modal created it.
C37_ExpiryComesWithStart ==
    \A g \in Rows(graphics) :
        graphics[g].expiry_date # None =>
            /\ graphics[g].in_effect_date # None
            /\ \E t \in Range(Instants) :
                  graphics[g].reminder_scheduled_time =
                      ReminderTime(graphics[g].in_effect_date, t)

\* C38: once _send_reminder has returned, a reminder reply that stands under
\* the message of a record in the store is recorded in that record:
\* reminder_sent is true and reminder_message_id is the id of the reply.
C38_PostedReplyIsRecorded ==
    \A k \in DOMAIN sent :
        (/\ sent[k].kind = "reminder"
         /\ sent[k].live
         /\ graphics[sent[k].graphic].persisted
         /\ reminder.pc = "idle") =>
            /\ graphics[sent[k].graphic].reminder_sent
            /\ graphics[sent[k].graphic].reminder_message_id = SentId(k)

\* C39: the window parse_date returns starts before it expires, for a
\* day-range, an intraday range and a month name.
C39_StartBeforeExpiry ==
    (Returned("parse_date") /\ call.result # NoParse) =>
        call.result.in_effect_datetime < call.result.expiry_datetime

\* C40 as stated: the window parse_date returns at current_date expires
\* after current_date.
C40_NeverExpiredAtParseTime ==
    (Returned("parse_date") /\ call.result # NoParse) =>
        call.result.expiry_datetime > call.current_date

\* month k is one of the six months before the month of t, and t is not
\* before 23:59:59 of the first day of the month after k
MonthHasPassed(k, t) ==
    /\ MonthOf(t) > k
    /\ MonthOf(t) <= k + 6
    /\ ~(MonthOf(t) = k + 1 /\ DayOf(t) = 1 /\ SecondOfDay(t) < 86399)
\* the end day of the typed day-range c, in the year inferred at t, and its
\* day of grace have passed at t
DayRangeHasPassed(c, t) ==
    LET y == InferredEndYear(t, c.m1, c.m2)
        after == NextDay(y, c.m2, c.d2)
    IN  t >= MkDateTime(after[1], after[2], after[3], 23, 59, 59)

\* C40, as the parser has it: the year of a window is inferred from the
\* months alone, so the window of a month name has expired at current_date
\* exactly when the month is one of the six before the month of current_date
\* (the first day after it excepted, which is its day of grace), and the
\* window of a valid day-range exactly when its end day, in the inferred
\* year, and the day of grace have passed.
C40_ExpiredWhenEndHasPassed ==
    Returned("parse_date") =>
        /\ \A c \in MonthCases :
              call.content = MonthContent(c) =>
                 /\ call.result # NoParse
                 /\ call.result.expiry_datetime <= call.current_date
                       <=> MonthHasPassed(c.month, call.current_date)
        /\ \A c \in DayRangeCases :
              (call.content = DayRangeContent(c) /\ ValidDayRange(c, call.current_date)) =>
                 /\ call.result # NoParse
                 /\ call.result.expiry_datetime <= call.current_date
                       <=> DayRangeHasPassed(c, call.current_date)

\* C40, its case: "january" read on 1 March 2025 gave a window that had
\* expired a month before
C40_JanuaryReadInMarch ==
    /\ Returned("parse_date")
    /\ call.content = EnglishMonths[1]
    /\ call.current_date = MkDateTime(2025, 3, 1, 12, 0, 0)
    /\ call.result.expiry_datetime = MkDateTime(2025, 2, 1, 23, 59, 59)
=============================================================================
